---- MODULE Spec2Model ----
(***************************************************************************)
(* Model of the GlobalMet weather aggregation layer (weather_api).         *)
(*                                                                         *)
(* The statistics core (WeatherDataProcessor) works on Python floats, so   *)
(* the model carries IEEE 754 binary64 arithmetic: a finite float is a     *)
(* sign, a 53-bit significand held as 15-bit limbs, and a binary exponent, *)
(* and every operation rounds to nearest, ties to even, as the hardware    *)
(* does.  Values stay far from overflow and from the subnormal range, so   *)
(* the exponent is left unbounded.                                         *)
(***************************************************************************)
EXTENDS Integers, Sequences, FiniteSets, TLC

(***************************************************************************)
(* Natural numbers of any size: little-endian sequences of limbs below     *)
(* Base, without high zero limbs; zero is the empty sequence.              *)
(***************************************************************************)
LimbBits == 15

Base == 2^LimbBits

Precision == 53

Limb(a, i) == IF i <= Len(a) THEN a[i] ELSE 0

RECURSIVE BTrim(_)
BTrim(a) ==
    IF a = <<>> THEN <<>>
    ELSE IF a[Len(a)] = 0 THEN BTrim(SubSeq(a, 1, Len(a) - 1))
    ELSE a

RECURSIVE BFromNat(_)
BFromNat(n) == IF n = 0 THEN <<>> ELSE <<n % Base>> \o BFromNat(n \div Base)

RECURSIVE BAddFrom(_, _, _, _)
BAddFrom(a, b, i, c) ==
    IF i > Len(a) /\ i > Len(b)
    THEN (IF c = 0 THEN <<>> ELSE <<c>>)
    ELSE LET s == Limb(a, i) + Limb(b, i) + c
         IN  <<s % Base>> \o BAddFrom(a, b, i + 1, s \div Base)

BAdd(a, b) == BAddFrom(a, b, 1, 0)

\* a - b for a >= b
RECURSIVE BSubFrom(_, _, _, _)
BSubFrom(a, b, i, c) ==
    IF i > Len(a) THEN <<>>
    ELSE LET s == Limb(a, i) - Limb(b, i) - c
         IN  IF s < 0 THEN <<s + Base>> \o BSubFrom(a, b, i + 1, 1)
             ELSE <<s>> \o BSubFrom(a, b, i + 1, 0)

BSub(a, b) == BTrim(BSubFrom(a, b, 1, 0))

\* -1, 0, 1 as a < b, a = b, a > b
RECURSIVE BCmpFrom(_, _, _)
BCmpFrom(a, b, i) ==
    IF i = 0 THEN 0
    ELSE IF a[i] < b[i] THEN -1
    ELSE IF a[i] > b[i] THEN 1
    ELSE BCmpFrom(a, b, i - 1)

BCmp(a, b) ==
    IF Len(a) < Len(b) THEN -1
    ELSE IF Len(a) > Len(b) THEN 1
    ELSE BCmpFrom(a, b, Len(a))

\* a * k for 0 <= k <= Base
RECURSIVE BMulFrom(_, _, _, _)
BMulFrom(a, k, i, c) ==
    IF i > Len(a) THEN BFromNat(c)
    ELSE LET s == a[i] * k + c
         IN  <<s % Base>> \o BMulFrom(a, k, i + 1, s \div Base)

BMulSmall(a, k) == IF k = 0 THEN <<>> ELSE BMulFrom(a, k, 1, 0)

\* a divided by k, 1 <= k <= Base: quotient limbs from the top, and remainder
RECURSIVE BDivFrom(_, _, _, _)
BDivFrom(a, k, i, r) ==
    IF i = 0 THEN [q |-> <<>>, r |-> r]
    ELSE LET cur  == r * Base + a[i]
             rest == BDivFrom(a, k, i - 1, cur % k)
         IN  [q |-> Append(rest.q, cur \div k), r |-> rest.r]

BDivTrim(d) == [q |-> BTrim(d.q), r |-> d.r]

BDivSmall(a, k) == BDivTrim(BDivFrom(a, k, Len(a), 0))

RECURSIVE BitLenSmall(_)
BitLenSmall(n) == IF n = 0 THEN 0 ELSE 1 + BitLenSmall(n \div 2)

BBitLen(a) ==
    IF a = <<>> THEN 0 ELSE LimbBits * (Len(a) - 1) + BitLenSmall(a[Len(a)])

RECURSIVE BShl(_, _)
BShl(a, n) ==
    IF a = <<>> \/ n = 0 THEN a
    ELSE IF n >= LimbBits THEN <<0>> \o BShl(a, n - LimbBits)
    ELSE BMulSmall(a, 2^n)

BShrDrop(rest, lost) == [q |-> rest.q, sticky |-> rest.sticky \/ lost]

BShrSmall(d) == [q |-> d.q, sticky |-> d.r # 0]

\* a shifted right by n bits: the quotient, and whether a one was shifted out
RECURSIVE BShr(_, _)
BShr(a, n) ==
    IF a = <<>> \/ n = 0 THEN [q |-> a, sticky |-> FALSE]
    ELSE IF n >= LimbBits THEN BShrDrop(BShr(Tail(a), n - LimbBits), a[1] # 0)
    ELSE BShrSmall(BDivSmall(a, 2^n))

BOdd(a) == a # <<>> /\ a[1] % 2 = 1

(***************************************************************************)
(* Python float: IEEE 754 binary64.  A finite value is                     *)
(* (-1)^sgn * man * 2^exp with man of exactly Precision bits, or zero.     *)
(* Each operation computes the exact result and rounds it once, to         *)
(* nearest, ties to even.                                                  *)
(***************************************************************************)
FZero == [sgn |-> 0, man |-> <<>>, exp |-> 0]

IsZero(x) == x.man = <<>>

\* q of Precision bits, or of one more after a carry out of the rounding
FRoundNorm(sgn, e, q) ==
    IF BBitLen(q) > Precision
    THEN [sgn |-> sgn, man |-> BDivSmall(q, 2).q, exp |-> e + 1]
    ELSE [sgn |-> sgn, man |-> q, exp |-> e]

\* q followed by a half bit and by sticky: up on more than half, or on a tie
\* with q odd
FRoundHalf(sgn, e, q, half, sticky) ==
    FRoundNorm(sgn, e, IF half /\ (sticky \/ BOdd(q)) THEN BAdd(q, <<1>>) ELSE q)

\* s1 is the significand with one bit more than Precision, the half bit
FRoundCut(sgn, e, s1, sticky) ==
    FRoundHalf(sgn, e, BDivSmall(s1.q, 2).q, BOdd(s1.q), s1.sticky \/ sticky)

FRoundLen(sgn, n, e, sticky, len) ==
    IF len <= Precision
    THEN [sgn |-> sgn, man |-> BShl(n, Precision - len), exp |-> e - (Precision - len)]
    ELSE FRoundCut(sgn, e + (len - Precision), BShr(n, len - Precision - 1), sticky)

\* The float nearest to (-1)^sgn * (n + f) * 2^e, where 0 <= f < 1 and f > 0
\* exactly when sticky.  Callers keep guard bits, so sticky comes with n
\* longer than Precision.
FRound(sgn, n, e, sticky) ==
    IF n = <<>> THEN FZero ELSE FRoundLen(sgn, n, e, sticky, BBitLen(n))

FNeg(x) == IF IsZero(x) THEN x ELSE [x EXCEPT !.sgn = 1 - x.sgn]

\* a and b are the significands at the common exponent e, c their comparison
FAddAligned(sx, sy, a, b, e, c) ==
    FRound(IF sx = sy \/ c >= 0 THEN sx ELSE sy,
           IF sx = sy THEN BAdd(a, b) ELSE IF c > 0 THEN BSub(a, b) ELSE BSub(b, a),
           e, FALSE)

FAddAt(x, y, a, b, e) == FAddAligned(x.sgn, y.sgn, a, b, e, BCmp(a, b))

FAddExp(x, y, e) == FAddAt(x, y, BShl(x.man, x.exp - e), BShl(y.man, y.exp - e), e)

\* x + y
FAdd(x, y) ==
    IF IsZero(x) THEN y
    ELSE IF IsZero(y) THEN x
    ELSE FAddExp(x, y, IF x.exp < y.exp THEN x.exp ELSE y.exp)

\* x - y
FSub(x, y) == FAdd(x, FNeg(y))

\* x * k for an integer 1 <= k <= Base
FMulInt(x, k) == FRound(x.sgn, BMulSmall(x.man, k), x.exp, FALSE)

GuardBits == LimbBits + 2

FDivRound(x, d) == FRound(x.sgn, d.q, x.exp - GuardBits, d.r # 0)

\* x / k for an integer 1 <= k <= Base
FDivInt(x, k) == FDivRound(x, BDivSmall(BShl(x.man, GuardBits), k))

\* comparison of the magnitudes: -1, 0, 1 as |x| < |y|, |x| = |y|, |x| > |y|
FCmpMag(x, y) ==
    IF IsZero(x) THEN (IF IsZero(y) THEN 0 ELSE -1)
    ELSE IF IsZero(y) THEN 1
    ELSE IF x.exp < y.exp THEN -1
    ELSE IF x.exp > y.exp THEN 1
    ELSE BCmp(x.man, y.man)

\* -1, 0, 1 as x < y, x = y, x > y
FCmp(x, y) ==
    IF x.sgn # y.sgn THEN (IF x.sgn = 1 THEN -1 ELSE 1)
    ELSE FCmpMag(IF x.sgn = 0 THEN x ELSE y, IF x.sgn = 0 THEN y ELSE x)

FLt(x, y) == FCmp(x, y) < 0

FLe(x, y) == FCmp(x, y) <= 0

\* the float of an integer (exact below 2^53)
FromInt(n) == FRound(IF n < 0 THEN 1 ELSE 0, BFromNat(IF n < 0 THEN -n ELSE n), 0, FALSE)

\* the float a decimal literal n/d denotes, d a power of ten: the nearest float
Dec(n, d) == FDivInt(FromInt(n), d)

(***************************************************************************)
(* Python values, as the JSON decoder and the processor produce them.      *)
(* t is the type; f the numeric value of a float or an int; s the          *)
(* characters of a str.                                                    *)
(***************************************************************************)
None == [t |-> "NoneType", f |-> FZero, s |-> <<>>]

PyFloat(x) == [t |-> "float", f |-> x, s |-> <<>>]

PyInt(n) == [t |-> "int", f |-> FromInt(n), s |-> <<>>]

PyStr(cs) == [t |-> "str", f |-> FZero, s |-> cs]

PyList == [t |-> "list", f |-> FZero, s |-> <<>>]

\* A decoded JSON array, and a decoded JSON object: its keys in the order
\* the dict holds them, and the value at each.
JArray(items) == [t |-> "list", items |-> items]

JObject(keys, at) == [t |-> "dict", keys |-> keys, at |-> at]

\* the outcome of a call: a returned value, or a raised exception
Return(v) == [exc |-> "", val |-> v]

\* GlobalMetAPIException(message, status_code): the exception and the
\* status code it carries
RaiseStatus(e, status_code) == [exc |-> e, val |-> status_code]

Raise(e) == [exc |-> e, val |-> None]

\* dict.get(key): None when the key is absent
Get(d, k) == IF k \in DOMAIN d THEN d[k] ELSE None

\* Python truth value testing, as `not x` sees it
Falsy(v) ==
    \/ v.t = "NoneType"
    \/ v.t \in {"float", "int"} /\ IsZero(v.f)
    \/ v.t = "str" /\ v.s = <<>>
    \/ v.t = "list" /\ "items" \in DOMAIN v /\ v.items = <<>>
    \/ v.t = "dict" /\ v.keys = <<>>

(***************************************************************************)
(* str.lower() on ASCII text.                                              *)
(***************************************************************************)
UpperCase == <<"A", "B", "C", "D", "E", "F", "G", "H", "I", "J", "K", "L", "M",
               "N", "O", "P", "Q", "R", "S", "T", "U", "V", "W", "X", "Y", "Z">>

LowerCase == <<"a", "b", "c", "d", "e", "f", "g", "h", "i", "j", "k", "l", "m",
               "n", "o", "p", "q", "r", "s", "t", "u", "v", "w", "x", "y", "z">>

LowerChar(c) ==
    IF \E i \in DOMAIN UpperCase : UpperCase[i] = c
    THEN LowerCase[CHOOSE i \in DOMAIN UpperCase : UpperCase[i] = c]
    ELSE c

Lower(cs) == [i \in DOMAIN cs |-> LowerChar(cs[i])]

(***************************************************************************)
(* float(value): a float is itself, an int converts exactly, a str is      *)
(* parsed as [sign] digits [. digits] and anything else in it is a         *)
(* ValueError, a list is a TypeError.                                      *)
(***************************************************************************)
DecimalDigits == <<"0", "1", "2", "3", "4", "5", "6", "7", "8", "9">>

IsDigit(c) == \E i \in DOMAIN DecimalDigits : DecimalDigits[i] = c

DigitValue(c) == (CHOOSE i \in DOMAIN DecimalDigits : DecimalDigits[i] = c) - 1

RECURSIVE DigitsValue(_)
DigitsValue(ds) ==
    IF ds = <<>> THEN 0
    ELSE DigitsValue(SubSeq(ds, 1, Len(ds) - 1)) * 10 + DigitValue(ds[Len(ds)])

\* n is the number the digits spell, frac how many of them follow the point
StrToFloatValue(negative, n, frac) ==
    Return(PyFloat(Dec(IF negative THEN -n ELSE n, 10^frac)))

StrToFloatBody(negative, body, dots, digits) ==
    IF /\ digits # <<>>
       /\ Cardinality(dots) <= 1
       /\ \A i \in DOMAIN body : IsDigit(body[i]) \/ body[i] = "."
    THEN StrToFloatValue(negative, DigitsValue(digits),
                         IF dots = {} THEN 0 ELSE Len(body) - (CHOOSE i \in dots : TRUE))
    ELSE Raise("ValueError")

StrToFloatSigned(negative, body) ==
    StrToFloatBody(negative, body, {i \in DOMAIN body : body[i] = "."},
                   SelectSeq(body, IsDigit))

StrToFloat(cs) ==
    IF cs # <<>> /\ cs[1] \in {"+", "-"}
    THEN StrToFloatSigned(cs[1] = "-", Tail(cs))
    ELSE StrToFloatSigned(FALSE, cs)

float(value) ==
    IF value.t = "float" THEN Return(value)
    ELSE IF value.t = "int" THEN Return(PyFloat(value.f))
    ELSE IF value.t = "str" THEN StrToFloat(value.s)
    ELSE Raise("TypeError")

(***************************************************************************)
(* State.  The processor and the client keep none of their own: a state    *)
(* of the model is the call being made, its outcome, and the one thing the *)
(* deployment fixes, the interpreter's float summation.                    *)
(***************************************************************************)
VARIABLES
    sumAlgorithm,   \* how sum() adds floats: "sequential" (CPython < 3.12),
                    \* "compensated" (CPython >= 3.12, Neumaier)
    call,           \* the operation called, its arguments and its environment
    ret,            \* its outcome: Return(value) or Raise(exception)
    gets,           \* the GETs sent upstream during the call: the dia of each
    handling        \* the requests being handled at the same time: for each,
                    \* the statement its get has reached and the get's locals

vars == <<sumAlgorithm, call, ret, gets, handling>>

(***************************************************************************)
(* utils/helpers.py                                                        *)
(***************************************************************************)
\* date.strftime('%Y-%m-%d'), for the years 1000 to 9999
TwoDigits(n) == <<DecimalDigits[(n \div 10) + 1], DecimalDigits[(n % 10) + 1]>>

strftime(d) ==
    TwoDigits(d.year \div 100) \o TwoDigits(d.year % 100) \o <<"-">>
        \o TwoDigits(d.month) \o <<"-">> \o TwoDigits(d.day)

\* datetime.strptime(date_str, '%Y-%m-%d').  %Y is four digits; %m is one
\* or two digits spelling 1..12; %d is one or two digits spelling 1..31, or
\* a blank and a digit; the whole text must be used and the fields must
\* name a day of the calendar.  Anything else is a ValueError.
IsLeap(y) == (y % 4 = 0 /\ y % 100 # 0) \/ y % 400 = 0

DaysInMonth(y, m) ==
    IF m = 2 THEN (IF IsLeap(y) THEN 29 ELSE 28)
    ELSE IF m \in {4, 6, 9, 11} THEN 30
    ELSE 31

AllDigits(cs) == \A i \in DOMAIN cs : IsDigit(cs[i])

MonthField(cs) == Len(cs) \in {1, 2} /\ AllDigits(cs) /\ DigitsValue(cs) \in 1..12

DayField(cs) ==
    \/ Len(cs) \in {1, 2} /\ AllDigits(cs) /\ DigitsValue(cs) \in 1..31
    \/ Len(cs) = 2 /\ cs[1] = " " /\ IsDigit(cs[2]) /\ cs[2] # "0"

MakeDate(y, m, d) ==
    IF y >= 1 /\ d <= DaysInMonth(y, m)
    THEN Return([year |-> y, month |-> m, day |-> d])
    ELSE Raise("ValueError")

StrptimeFields(year, month, day) ==
    IF Len(year) = 4 /\ AllDigits(year) /\ MonthField(month) /\ DayField(day)
    THEN MakeDate(DigitsValue(year), DigitsValue(month),
                  DigitsValue(SelectSeq(day, IsDigit)))
    ELSE Raise("ValueError")

StrptimeSplit(cs, first, second) ==
    StrptimeFields(SubSeq(cs, 1, first - 1), SubSeq(cs, first + 1, second - 1),
                   SubSeq(cs, second + 1, Len(cs)))

StrptimeAt(cs, dashes) ==
    IF Cardinality(dashes) # 2 THEN Raise("ValueError")
    ELSE StrptimeSplit(cs, CHOOSE i \in dashes : \A j \in dashes : i <= j,
                       CHOOSE i \in dashes : \A j \in dashes : j <= i)

strptime(cs) == StrptimeAt(cs, {i \in DOMAIN cs : cs[i] = "-"})

\* the current date in America/Hermosillo, as the clock of the call gives it
get_current_date_hermosillo(clock) == PyStr(strftime(clock.hermosillo))

validate_date_format(date_str) ==
    IF Falsy(date_str) THEN TRUE
    ELSE strptime(date_str.s).exc = ""

Celsius == <<"c", "e", "l", "s", "i", "u", "s">>

Fahrenheit == <<"f", "a", "h", "r", "e", "n", "h", "e", "i", "t">>

Kelvin == <<"k", "e", "l", "v", "i", "n">>

\* Variant: the unit compared as written, without lower-casing it.
ValidateUnitCaseSensitive(unit) == unit \in {Celsius, Fahrenheit, Kelvin}

validate_temperature_unit(unit) == Lower(unit) \in {Celsius, Fahrenheit, Kelvin}

\* try: return float(value); except (ValueError, TypeError): return None
ValueOrNone(r) == IF r.exc = "" THEN r.val ELSE None

\* Variant: a value that is no number counts as 0.0 instead of being dropped.
SafeFloatConversionOrZero(value) ==
    IF value = None THEN None
    ELSE IF float(value).exc = "" THEN float(value).val
    ELSE PyFloat(FZero)

safe_float_conversion(value) ==
    IF value = None THEN None ELSE ValueOrNone(float(value))

RECURSIVE SumSequential(_, _, _)
SumSequential(values, i, acc) ==
    IF i > Len(values) THEN acc
    ELSE SumSequential(values, i + 1, FAdd(acc, values[i].f))

\* Neumaier's compensation term for t = hi + x: the rounding error of the
\* addition, recovered from the operand of larger magnitude
Compensation(larger, smaller, t) == FAdd(FSub(larger, t), smaller)

RECURSIVE SumCompensated(_, _, _, _)
SumCompensatedStep(values, i, hi, lo, x, t, hiLarger) ==
    SumCompensated(values, i + 1, t,
        FAdd(lo, Compensation(IF hiLarger THEN hi ELSE x, IF hiLarger THEN x ELSE hi, t)))

SumCompensated(values, i, hi, lo) ==
    IF i > Len(values)
    THEN (IF IsZero(lo) THEN hi ELSE FAdd(hi, lo))
    ELSE SumCompensatedStep(values, i, hi, lo, values[i].f, FAdd(hi, values[i].f),
                            FCmpMag(hi, values[i].f) >= 0)

\* sum(values) of a non-empty list of floats, from the start value 0
sum(values) ==
    IF sumAlgorithm = "compensated"
    THEN SumCompensated(values, 2, values[1].f, FZero)
    ELSE SumSequential(values, 1, FZero)

calculate_average(values) ==
    IF values = <<>> THEN None
    ELSE PyFloat(FDivInt(sum(values), Len(values)))

(***************************************************************************)
(* core/services.py: WeatherDataProcessor                                  *)
(***************************************************************************)
\* min(values): the first of the smallest items
RECURSIVE MinFrom(_, _, _)
MinFrom(values, i, best) ==
    IF i > Len(values) THEN best
    ELSE MinFrom(values, i + 1, IF FLt(values[i].f, best.f) THEN values[i] ELSE best)

min(values) == MinFrom(values, 2, values[1])

\* max(values): the first of the largest items
RECURSIVE MaxFrom(_, _, _)
MaxFrom(values, i, best) ==
    IF i > Len(values) THEN best
    ELSE MaxFrom(values, i + 1, IF FLt(best.f, values[i].f) THEN values[i] ELSE best)

max(values) == MaxFrom(values, 2, values[1])

\* the loop over the measurements, collecting the usable values in order
RECURSIVE CollectValues(_, _, _, _)
CollectValue(measurements, field, i, values, value) ==
    CollectValues(measurements, field, i + 1,
                  IF value # None THEN Append(values, value) ELSE values)

CollectValues(measurements, field, i, values) ==
    IF i > Len(measurements) THEN values
    ELSE IF field \in DOMAIN measurements[i] /\ measurements[i][field] # None
    THEN CollectValue(measurements, field, i, values,
                      safe_float_conversion(measurements[i][field]))
    ELSE CollectValues(measurements, field, i + 1, values)

\* Variant: the result also carries min_time and max_time, as the sentinel.
StatisticsWithTimes(values) ==
    IF values = <<>>
    THEN Return([min |-> None, max |-> None, promedio |-> None,
                 min_time |-> None, max_time |-> None])
    ELSE Return([min |-> min(values), max |-> max(values),
                 promedio |-> calculate_average(values),
                 min_time |-> PyStr(<<"-", "-">>), max_time |-> PyStr(<<"-", "-">>)])

StatisticsOf(values) ==
    IF values = <<>>
    THEN Return([min |-> None, max |-> None, promedio |-> None])
    ELSE Return([min |-> min(values), max |-> max(values),
                 promedio |-> calculate_average(values)])

\* Variant: no check for the empty list.
CalculateStatisticsUnguarded(measurements, field) ==
    StatisticsOf(CollectValues(measurements, field, 1, <<>>))

calculate_statistics(measurements, field) ==
    IF measurements = <<>> THEN Raise("NoDataFoundException")
    ELSE StatisticsOf(CollectValues(measurements, field, 1, <<>>))

Kelvin27315 == Dec(27315, 100)

\* Variant: the Fahrenheit ratio inverted (5/9 for 9/5).
ConvertToInvertedRatio(temp_celsius, unit_lower) ==
    IF unit_lower = Celsius THEN Return(temp_celsius)
    ELSE IF temp_celsius.t \notin {"float", "int"}
    THEN Raise("TemperatureConversionException")
    ELSE IF unit_lower = Fahrenheit
    THEN Return(PyFloat(FAdd(FDivInt(FMulInt(temp_celsius.f, 5), 9), FromInt(32))))
    ELSE IF unit_lower = Kelvin
    THEN Return(PyFloat(FAdd(temp_celsius.f, Kelvin27315)))
    ELSE Return(None)

\* The arithmetic on anything but a number is a TypeError, which the except
\* clause turns into TemperatureConversionException.
ConvertTo(temp_celsius, unit_lower) ==
    IF unit_lower = Celsius THEN Return(temp_celsius)
    ELSE IF temp_celsius.t \notin {"float", "int"}
    THEN Raise("TemperatureConversionException")
    ELSE IF unit_lower = Fahrenheit
    THEN Return(PyFloat(FAdd(FDivInt(FMulInt(temp_celsius.f, 9), 5), FromInt(32))))
    ELSE IF unit_lower = Kelvin
    THEN Return(PyFloat(FAdd(temp_celsius.f, Kelvin27315)))
    ELSE Return(None)

\* Variant: no check for a null value before the arithmetic.
ConvertTemperatureNoNullCheck(temp_celsius, unit) ==
    IF ~validate_temperature_unit(unit) THEN Raise("InvalidTemperatureUnitException")
    ELSE ConvertTo(temp_celsius, Lower(unit))

convert_temperature(temp_celsius, unit) ==
    IF ~validate_temperature_unit(unit) THEN Raise("InvalidTemperatureUnitException")
    ELSE IF temp_celsius = None THEN Return(None)
    ELSE ConvertTo(temp_celsius, Lower(unit))

\* the dict of the three conversions, unless one of them raised
ConvertedStats(lo, hi, avg) ==
    IF lo.exc # "" THEN lo
    ELSE IF hi.exc # "" THEN hi
    ELSE IF avg.exc # "" THEN avg
    ELSE Return([min |-> lo.val, max |-> hi.val, promedio |-> avg.val])

\* Variant: the short-circuit on empty statistics comes before the validation.
ConvertStatsShortCircuitFirst(stats, unit) ==
    IF Falsy(Get(stats, "min")) /\ Falsy(Get(stats, "max")) /\ Falsy(Get(stats, "promedio"))
    THEN Return(stats)
    ELSE IF ~validate_temperature_unit(unit) THEN Raise("InvalidTemperatureUnitException")
    ELSE ConvertedStats(convert_temperature(Get(stats, "min"), unit),
                        convert_temperature(Get(stats, "max"), unit),
                        convert_temperature(Get(stats, "promedio"), unit))

\* Variant: the short-circuit taken when any one statistic is falsy ("or").
ConvertStatsAnyFalsy(stats, unit) ==
    IF ~validate_temperature_unit(unit) THEN Raise("InvalidTemperatureUnitException")
    ELSE IF Falsy(Get(stats, "min")) \/ Falsy(Get(stats, "max")) \/ Falsy(Get(stats, "promedio"))
    THEN Return(stats)
    ELSE ConvertedStats(convert_temperature(Get(stats, "min"), unit),
                        convert_temperature(Get(stats, "max"), unit),
                        convert_temperature(Get(stats, "promedio"), unit))

\* Variant: the converted dict keeps the other keys of the input.
ConvertStatsKeepingFields(stats, unit) ==
    IF ~validate_temperature_unit(unit) THEN Raise("InvalidTemperatureUnitException")
    ELSE IF Falsy(Get(stats, "min")) /\ Falsy(Get(stats, "max")) /\ Falsy(Get(stats, "promedio"))
    THEN Return(stats)
    ELSE Return([k \in DOMAIN stats |->
                    IF k \in {"min", "max", "promedio"}
                    THEN convert_temperature(stats[k], unit).val
                    ELSE stats[k]])

convert_temperature_stats(stats, unit) ==
    IF ~validate_temperature_unit(unit) THEN Raise("InvalidTemperatureUnitException")
    ELSE IF Falsy(Get(stats, "min")) /\ Falsy(Get(stats, "max")) /\ Falsy(Get(stats, "promedio"))
    THEN Return(stats)
    ELSE ConvertedStats(convert_temperature(Get(stats, "min"), unit),
                        convert_temperature(Get(stats, "max"), unit),
                        convert_temperature(Get(stats, "promedio"), unit))

(***************************************************************************)
(* core/services.py: GlobalMetAPIClient.  The environment of a call is     *)
(* the clock and what the upstream does with a GET: whether it responds,   *)
(* the status code of the response and the JSON it carries.                *)
(***************************************************************************)
\* the date the request will ask for, unless the argument is refused
RequestDate(date_str, clock) ==
    IF date_str = None THEN Return(get_current_date_hermosillo(clock))
    ELSE IF ~validate_date_format(date_str) THEN Raise("InvalidDateFormatException")
    ELSE Return(date_str)

\* requests.get raises when there is no response, raise_for_status raises on
\* a 4xx or 5xx response; both are RequestException, whose response is None
\* when there was none
Fetch(upstream) ==
    IF ~upstream.responds THEN RaiseStatus("GlobalMetAPIException", None)
    ELSE IF upstream.status_code >= 400 /\ upstream.status_code < 600
    THEN RaiseStatus("GlobalMetAPIException", PyInt(upstream.status_code))
    ELSE Return(upstream.json)

FetchFor(request_date, upstream) ==
    IF request_date.exc # "" THEN request_date ELSE Fetch(upstream)

get_measurements_by_date(date_str, env) ==
    FetchFor(RequestDate(date_str, env.clock), env.upstream)

\* the GETs a call of get_measurements_by_date sends: the dia of each
RequestsFor(request_date) ==
    IF request_date.exc # "" THEN <<>> ELSE <<request_date.val>>

RequestsSent(date_str, env) == RequestsFor(RequestDate(date_str, env.clock))

\* Variant: the key data looked up before the key results.
NormalizeReplyDataFirst(data) ==
    IF data.t = "list" THEN data
    ELSE IF data.t = "dict"
    THEN IF "data" \in DOMAIN data.at THEN data.at["data"]
         ELSE IF "results" \in DOMAIN data.at THEN data.at["results"]
         ELSE IF "mediciones" \in DOMAIN data.at THEN data.at["mediciones"]
         ELSE JArray(<<data>>)
    ELSE JArray(<<>>)

NormalizeReply(data) ==
    IF data.t = "list" THEN data
    ELSE IF data.t = "dict"
    THEN IF "results" \in DOMAIN data.at THEN data.at["results"]
         ELSE IF "data" \in DOMAIN data.at THEN data.at["data"]
         ELSE IF "mediciones" \in DOMAIN data.at THEN data.at["mediciones"]
         ELSE JArray(<<data>>)
    ELSE JArray(<<>>)

Normalized(data) == IF data.exc # "" THEN data ELSE Return(NormalizeReply(data.val))

get_measurements_list(date_str, env) == Normalized(get_measurements_by_date(date_str, env))

(***************************************************************************)
(* core/constants.py                                                       *)
(***************************************************************************)
WEATHER_FIELDS ==
    [temperatura |-> "temperatura_c", humedad |-> "humedad_relativa",
     viento |-> "viento_kmh", rafaga |-> "viento_rafaga_kmh",
     presion |-> "presion_mb"]

TEMPERATURE_SYMBOLS == [celsius |-> "°C", fahrenheit |-> "°F", kelvin |-> "K"]

CSV_HEADERS ==
    [statistics |-> <<"Parametro", "Minimo", "Maximo", "Promedio", "Unidad">>,
     parameter_names |->
         [temperatura |-> "Temperatura", humedad |-> "Humedad Relativa",
          viento |-> "Viento", rafaga |-> "Rafaga de Viento",
          presion |-> "Presion"],
     units |-> [humedad |-> "%", viento |-> "km/h", rafaga |-> "km/h",
                presion |-> "mb"]]

\* TEMPERATURE_SYMBOLS.get(unit.lower(), '°C')
get_temperature_symbol(unit) ==
    IF Lower(unit) = Fahrenheit THEN TEMPERATURE_SYMBOLS.fahrenheit
    ELSE IF Lower(unit) = Kelvin THEN TEMPERATURE_SYMBOLS.kelvin
    ELSE TEMPERATURE_SYMBOLS.celsius

\* f"{base_name}_{fecha}.csv": the pieces of the text, the date by its
\* characters
format_filename(base_name, date_str) ==
    <<base_name, "_">> \o (IF Falsy(date_str) THEN <<"hoy">> ELSE date_str.s)
        \o <<".csv">>

(***************************************************************************)
(* api/serializers.py.  The query parameters arrive as text, or not at     *)
(* all (None); a parameter given empty is no input to a field that is not  *)
(* required.                                                               *)
(***************************************************************************)
NoInput(param) == param = None \/ param.s = <<>>

\* value > date.today()
After(a, b) ==
    \/ a.year > b.year
    \/ a.year = b.year /\ a.month > b.month
    \/ a.year = b.year /\ a.month = b.month /\ a.day > b.day

validate_dia(value, clock) ==
    IF After(value, clock.today) THEN Raise("ValidationError") ELSE Return(value)

\* DateField(required=False, input_formats=['%Y-%m-%d']), then validate_dia
DiaParsed(parsed, clock) ==
    IF parsed.exc # "" THEN Raise("ValidationError")
    ELSE validate_dia(parsed.val, clock)

DiaField(param, clock) ==
    IF NoInput(param) THEN Return(None) ELSE DiaParsed(strptime(param.s), clock)

\* ChoiceField(choices=['celsius', 'fahrenheit', 'kelvin'], default='celsius')
UnidadField(param) ==
    IF NoInput(param) THEN Return(PyStr(Celsius))
    ELSE IF param.s \in {Celsius, Fahrenheit, Kelvin} THEN Return(param)
    ELSE Raise("ValidationError")

\* is_valid(raise_exception=True): the validated data, or a ValidationError
\* naming the fields refused
Validated(dia, unidad) ==
    IF dia.exc # "" \/ unidad.exc # ""
    THEN [exc |-> "ValidationError",
          val |-> {f \in {"dia", "unidad"} :
                      \/ f = "dia" /\ dia.exc # ""
                      \/ f = "unidad" /\ unidad.exc # ""}]
    ELSE Return([dia |-> dia.val, unidad |-> unidad.val])

WeatherQuerySerializer(query_params, clock) ==
    Validated(DiaField(query_params.dia, clock), Return(None))

TemperatureQuerySerializer(query_params, clock) ==
    Validated(DiaField(query_params.dia, clock), UnidadField(query_params.unidad))

CSVExportQuerySerializer(query_params, clock) ==
    TemperatureQuerySerializer(query_params, clock)

(***************************************************************************)
(* api/views.py: the class-based views.                                    *)
(***************************************************************************)
Response(status, data) == [status |-> status, data |-> data]

\* HttpResponse(output.getvalue(), content_type='text/csv') with its
\* Content-Disposition: the rows written and the file name
HttpResponse(header, rows, filename) ==
    [status |-> 200, content_type |-> "text/csv", header |-> header,
     rows |-> rows, filename |-> filename]

\* NoDataFoundException(date_str): the exception and the text it is about
RaiseAbout(e, date_str) == [exc |-> e, val |-> date_str]

\* str(exc), in pieces: the processor raises NoDataFoundException("No
\* measurements provided"), the export raises it with the date asked for;
\* the text of a GlobalMetAPIException ends with that of the requests error
ExceptionText(outcome) ==
    IF outcome.exc = "NoDataFoundException"
    THEN <<"No measurements found for date: ">>
             \o (IF outcome.val = None THEN <<"No measurements provided">>
                 ELSE outcome.val.s)
    ELSE IF outcome.exc = "GlobalMetAPIException"
    THEN <<"GlobalMet API error: ", "str(e)">>
    ELSE <<outcome.exc>>

\* the response of a view: the one get returned, or the one made of the
\* exception it raised.  A ValidationError is answered by the framework; any
\* exception that is no WeatherAPIException and no APIException leaves the
\* view and becomes the server's 500 response.
handle_exception(outcome) ==
    IF outcome.exc = "" THEN outcome.val
    ELSE IF outcome.exc = "InvalidDateFormatException"
    THEN Response(400, [error |-> ExceptionText(outcome)])
    ELSE IF outcome.exc = "InvalidTemperatureUnitException"
    THEN Response(400, [error |-> ExceptionText(outcome)])
    ELSE IF outcome.exc = "GlobalMetAPIException"
    THEN Response(503, [error |-> ExceptionText(outcome)])
    ELSE IF outcome.exc = "NoDataFoundException"
    THEN Response(404, [error |-> ExceptionText(outcome)])
    ELSE IF outcome.exc \in {"DataProcessingException", "TemperatureConversionException",
                             "CSVExportException", "WeatherAPIException"}
    THEN Response(500, [error |-> ExceptionText(outcome)])
    ELSE IF outcome.exc = "ValidationError"
    THEN Response(400, [errors |-> outcome.val])
    ELSE Response(500, [error |-> <<"Server Error (500)">>])

\* dia.strftime('%Y-%m-%d') if dia else None
DiaStr(dia) == IF dia = None THEN None ELSE PyStr(strftime(dia))

\* the records of a decoded array, as the processor reads them
Records(items) == [i \in DOMAIN items |-> items[i].at]

\* calculate_statistics on what the client returned: a list of records, or,
\* when the reply stored something else under its key, a value that is
\* falsy, or one the loop cannot iterate
ProcessFetched(measurements, field) ==
    IF measurements.t = "list"
    THEN calculate_statistics(Records(measurements.items), field)
    ELSE IF Falsy(measurements) THEN Raise("NoDataFoundException")
    ELSE Raise("TypeError")

FieldStatistics(fetched, field) ==
    IF fetched.exc # "" THEN fetched ELSE ProcessFetched(fetched.val, field)

\* if unidad != 'celsius': convert_temperature_stats(stats, unidad)
InUnit(stats, unidad) ==
    IF stats.exc # "" THEN stats
    ELSE IF unidad.s # Celsius THEN convert_temperature_stats(stats.val, unidad.s)
    ELSE stats

Ok(outcome) ==
    IF outcome.exc # "" THEN outcome ELSE Return(Response(200, outcome.val))

TemperatureView(validated, env) ==
    IF validated.exc # "" THEN validated
    ELSE Ok(InUnit(FieldStatistics(get_measurements_list(DiaStr(validated.val.dia), env),
                                   WEATHER_FIELDS.temperatura),
                   validated.val.unidad))

TemperatureStatisticsView_get(query_params, env) ==
    TemperatureView(TemperatureQuerySerializer(query_params, env.clock), env)

\* the humidity, wind, gust and pressure views differ in the field only
FieldView(validated, field, env) ==
    IF validated.exc # "" THEN validated
    ELSE Ok(FieldStatistics(get_measurements_list(DiaStr(validated.val.dia), env),
                            field))

HumidityStatisticsView_get(query_params, env) ==
    FieldView(WeatherQuerySerializer(query_params, env.clock),
              WEATHER_FIELDS.humedad, env)

WindStatisticsView_get(query_params, env) ==
    FieldView(WeatherQuerySerializer(query_params, env.clock),
              WEATHER_FIELDS.viento, env)

WindGustStatisticsView_get(query_params, env) ==
    FieldView(WeatherQuerySerializer(query_params, env.clock),
              WEATHER_FIELDS.rafaga, env)

PressureStatisticsView_get(query_params, env) ==
    FieldView(WeatherQuerySerializer(query_params, env.clock),
              WEATHER_FIELDS.presion, env)

\* the five statistics of the summary and of the statistics export, computed
\* in the order temperatura (converted when asked), humedad, viento, rafaga,
\* presion: the first exception raised ends the handler
\* Variant: every entry computed from the temperature field.
FiveStatisticsOfOneField(fetched) ==
    [k \in DOMAIN WEATHER_FIELDS |->
        FieldStatistics(fetched, WEATHER_FIELDS.temperatura)]

FiveStatistics(fetched) ==
    [k \in DOMAIN WEATHER_FIELDS |-> FieldStatistics(fetched, WEATHER_FIELDS[k])]

FirstRaised(temperatura, all) ==
    IF temperatura.exc # "" THEN temperatura
    ELSE IF all.humedad.exc # "" THEN all.humedad
    ELSE IF all.viento.exc # "" THEN all.viento
    ELSE IF all.rafaga.exc # "" THEN all.rafaga
    ELSE IF all.presion.exc # "" THEN all.presion
    ELSE Return([temperatura |-> temperatura.val, humedad |-> all.humedad.val,
                 viento |-> all.viento.val, rafaga |-> all.rafaga.val,
                 presion |-> all.presion.val])

SummaryOf(all, unidad) == FirstRaised(InUnit(all.temperatura, unidad), all)

Summary(fetched, unidad) == SummaryOf(FiveStatistics(fetched), unidad)

SummaryView(validated, env) ==
    IF validated.exc # "" THEN validated
    ELSE Ok(Summary(get_measurements_list(DiaStr(validated.val.dia), env),
                    validated.val.unidad))

DailySummaryView_get(query_params, env) ==
    SummaryView(TemperatureQuerySerializer(query_params, env.clock), env)

\* csv.writer writes None as the empty text, and any other value as str()
\* gives it: the value stands for its text
CsvCell(v) == IF v = None THEN PyStr(<<>>) ELSE v

\* Variant: the cells of min and max exchanged.
StatisticsRowMaxFirst(k, stats, unit) ==
    [parametro |-> CSV_HEADERS.parameter_names[k], min |-> CsvCell(stats.max),
     max |-> CsvCell(stats.min), promedio |-> CsvCell(stats.promedio),
     unidad |-> unit]

StatisticsRow(k, stats, unit) ==
    [parametro |-> CSV_HEADERS.parameter_names[k], min |-> CsvCell(stats.min),
     max |-> CsvCell(stats.max), promedio |-> CsvCell(stats.promedio),
     unidad |-> unit]

StatisticsRows(resumen, unidad) ==
    <<StatisticsRow("temperatura", resumen.temperatura, get_temperature_symbol(unidad.s)),
      StatisticsRow("humedad", resumen.humedad, CSV_HEADERS.units.humedad),
      StatisticsRow("viento", resumen.viento, CSV_HEADERS.units.viento),
      StatisticsRow("rafaga", resumen.rafaga, CSV_HEADERS.units.rafaga),
      StatisticsRow("presion", resumen.presion, CSV_HEADERS.units.presion)>>

StatisticsFile(resumen, unidad, dia_str) ==
    IF resumen.exc # "" THEN resumen
    ELSE Return(HttpResponse(CSV_HEADERS.statistics,
                             StatisticsRows(resumen.val, unidad),
                             format_filename("estadisticas", dia_str)))

ExportStatistics(validated, env) ==
    IF validated.exc # "" THEN validated
    ELSE StatisticsFile(Summary(get_measurements_list(DiaStr(validated.val.dia), env),
                                validated.val.unidad),
                        validated.val.unidad, DiaStr(validated.val.dia))

ExportStatisticsView_get(query_params, env) ==
    ExportStatistics(CSVExportQuerySerializer(query_params, env.clock), env)

\* Variant: each row made of the record's own fields.
MeasurementRowsOwnFields(items, headers) ==
    [i \in DOMAIN items |->
        [j \in DOMAIN items[i].keys |-> CsvCell(items[i].at[items[i].keys[j]])]]

\* row = [measurement.get(header, '') for header in headers], for each
\* measurement
MeasurementRows(items, headers) ==
    [i \in DOMAIN items |->
        [j \in DOMAIN headers |->
            IF headers[j] \in DOMAIN items[i].at
            THEN CsvCell(items[i].at[headers[j]]) ELSE PyStr(<<>>)]]

\* Variant: the export of an empty list is an empty file.
MeasurementsFileOfAny(measurements, dia_str) ==
    IF measurements.t = "list" /\ measurements.items # <<>>
    THEN Return(HttpResponse(measurements.items[1].keys,
                             MeasurementRows(measurements.items,
                                             measurements.items[1].keys),
                             format_filename("mediciones", dia_str)))
    ELSE Return(HttpResponse(<<>>, <<>>, format_filename("mediciones", dia_str)))

\* if not measurements: raise NoDataFoundException(dia_str or 'today');
\* measurements[0] of a number is a TypeError
MeasurementsFile(measurements, dia_str) ==
    IF Falsy(measurements)
    THEN RaiseAbout("NoDataFoundException",
                    IF Falsy(dia_str) THEN PyStr(<<"t", "o", "d", "a", "y">>)
                    ELSE dia_str)
    ELSE IF measurements.t # "list" THEN Raise("TypeError")
    ELSE Return(HttpResponse(measurements.items[1].keys,
                             MeasurementRows(measurements.items,
                                             measurements.items[1].keys),
                             format_filename("mediciones", dia_str)))

FetchedFile(fetched, dia_str) ==
    IF fetched.exc # "" THEN fetched ELSE MeasurementsFile(fetched.val, dia_str)

ExportMeasurements(validated, env) ==
    IF validated.exc # "" THEN validated
    ELSE FetchedFile(get_measurements_list(DiaStr(validated.val.dia), env),
                     DiaStr(validated.val.dia))

ExportMeasurementsView_get(query_params, env) ==
    ExportMeasurements(WeatherQuerySerializer(query_params, env.clock), env)

\* the GETs a view sends: none when the serializer refuses the parameters
ViewRequests(validated, env) ==
    IF validated.exc # "" THEN <<>>
    ELSE RequestsSent(DiaStr(validated.val.dia), env)

(***************************************************************************)
(* services.py: the client and the processor the function views use.       *)
(***************************************************************************)
legacy_RequestDate(date_str, clock) ==
    IF date_str = None THEN Return(PyStr(strftime(clock.hermosillo)))
    ELSE IF strptime(date_str.s).exc # "" THEN Raise("ValueError")
    ELSE Return(date_str)

\* every RequestException is raised again as a RequestException
legacy_Fetch(upstream) ==
    IF ~upstream.responds THEN Raise("RequestException")
    ELSE IF upstream.status_code >= 400 /\ upstream.status_code < 600
    THEN Raise("RequestException")
    ELSE Return(upstream.json)

legacy_FetchFor(request_date, upstream) ==
    IF request_date.exc # "" THEN request_date ELSE legacy_Fetch(upstream)

legacy_get_measurements_by_date(date_str, env) ==
    legacy_FetchFor(legacy_RequestDate(date_str, env.clock), env.upstream)

legacy_RequestsSent(date_str, env) ==
    RequestsFor(legacy_RequestDate(date_str, env.clock))

legacy_NormalizeReply(data) ==
    IF data.t = "list" THEN data
    ELSE IF data.t = "dict"
    THEN IF "results" \in DOMAIN data.at THEN data.at["results"]
         ELSE IF "data" \in DOMAIN data.at THEN data.at["data"]
         ELSE IF "mediciones" \in DOMAIN data.at THEN data.at["mediciones"]
         ELSE JArray(<<data>>)
    ELSE JArray(<<>>)

legacy_Normalized(data) ==
    IF data.exc # "" THEN data ELSE Return(legacy_NormalizeReply(data.val))

legacy_get_measurements_list(date_str, env) ==
    legacy_Normalized(legacy_get_measurements_by_date(date_str, env))

\* the loop over the measurements: float() of each value that is there, the
\* ones float() refuses skipped
RECURSIVE legacy_CollectValues(_, _, _, _)
legacy_CollectValue(measurements, field, i, values, value) ==
    legacy_CollectValues(measurements, field, i + 1,
                         IF value.exc = "" THEN Append(values, value.val) ELSE values)

legacy_CollectValues(measurements, field, i, values) ==
    IF i > Len(measurements) THEN values
    ELSE IF field \in DOMAIN measurements[i] /\ measurements[i][field] # None
    THEN legacy_CollectValue(measurements, field, i, values,
                             float(measurements[i][field]))
    ELSE legacy_CollectValues(measurements, field, i + 1, values)

legacy_StatisticsOf(values) ==
    IF values = <<>>
    THEN Return([min |-> None, max |-> None, promedio |-> None])
    ELSE Return([min |-> min(values), max |-> max(values),
                 promedio |-> PyFloat(FDivInt(sum(values), Len(values)))])

legacy_calculate_statistics(measurements, field) ==
    legacy_StatisticsOf(legacy_CollectValues(measurements, field, 1, <<>>))

\* arithmetic on anything but a number is a TypeError
legacy_convert_temperature(temp_celsius, unit) ==
    IF Lower(unit) = Celsius THEN Return(temp_celsius)
    ELSE IF Lower(unit) \notin {Fahrenheit, Kelvin} THEN Raise("ValueError")
    ELSE IF temp_celsius.t \notin {"float", "int"} THEN Raise("TypeError")
    ELSE IF Lower(unit) = Fahrenheit
    THEN Return(PyFloat(FAdd(FDivInt(FMulInt(temp_celsius.f, 9), 5), FromInt(32))))
    ELSE Return(PyFloat(FAdd(temp_celsius.f, Kelvin27315)))

legacy_convert_temperature_stats(stats, unit) ==
    IF Falsy(stats.min) \/ Falsy(stats.max) \/ Falsy(stats.promedio)
    THEN Return(stats)
    ELSE ConvertedStats(legacy_convert_temperature(stats.min, unit),
                        legacy_convert_temperature(stats.max, unit),
                        legacy_convert_temperature(stats.promedio, unit))

(***************************************************************************)
(* views.py: the function views.                                           *)
(***************************************************************************)
\* request.GET.get('unidad', 'celsius').lower()
legacy_Unidad(param) == IF param = None THEN Celsius ELSE Lower(param.s)

legacy_UnitError ==
    Return(Response(400, [error |-> <<"Unit must be celsius, fahrenheit, or kelvin">>]))

\* the except clauses every function view ends with
legacy_Respond(outcome) ==
    IF outcome.exc = "" THEN outcome.val
    ELSE IF outcome.exc = "ValueError"
    THEN Response(400, [error |-> <<"Date must be in YYYY-MM-DD format">>])
    ELSE IF outcome.exc = "RequestException"
    THEN Response(503, [error |-> <<"Error fetching data: ",
                                    "Error fetching data from GlobalMet API: ",
                                    "str(e)">>])
    ELSE Response(500, [error |-> <<"Internal server error: ", "str(e)">>])

\* calculate_statistics on what the client returned: iterating anything but
\* a list of records is a TypeError
legacy_ProcessFetched(measurements, field) ==
    IF measurements.t = "list"
    THEN legacy_calculate_statistics(Records(measurements.items), field)
    ELSE Raise("TypeError")

legacy_FieldStatistics(fetched, field) ==
    IF fetched.exc # "" THEN fetched ELSE legacy_ProcessFetched(fetched.val, field)

legacy_InUnit(stats, unidad) ==
    IF stats.exc # "" THEN stats
    ELSE IF unidad # Celsius THEN legacy_convert_temperature_stats(stats.val, unidad)
    ELSE stats

legacy_Temperatura(unidad, dia, env) ==
    IF unidad \notin {Celsius, Fahrenheit, Kelvin} THEN legacy_UnitError
    ELSE Ok(legacy_InUnit(legacy_FieldStatistics(legacy_get_measurements_list(dia, env),
                                                 "temperatura_c"),
                          unidad))

temperatura_estadisticas(query_params, env) ==
    legacy_Respond(legacy_Temperatura(legacy_Unidad(query_params.unidad),
                                      query_params.dia, env))

legacy_Field(field, dia, env) ==
    Ok(legacy_FieldStatistics(legacy_get_measurements_list(dia, env), field))

humedad_estadisticas(query_params, env) ==
    legacy_Respond(legacy_Field("humedad_relativa", query_params.dia, env))

viento_estadisticas(query_params, env) ==
    legacy_Respond(legacy_Field("viento_kmh", query_params.dia, env))

rafaga_estadisticas(query_params, env) ==
    legacy_Respond(legacy_Field("viento_rafaga_kmh", query_params.dia, env))

presion_estadisticas(query_params, env) ==
    legacy_Respond(legacy_Field("presion_mb", query_params.dia, env))

legacy_FiveStatistics(fetched) ==
    [k \in DOMAIN WEATHER_FIELDS |->
        legacy_FieldStatistics(fetched, WEATHER_FIELDS[k])]

legacy_SummaryOf(all, unidad) ==
    FirstRaised(legacy_InUnit(all.temperatura, unidad), all)

legacy_Summary(fetched, unidad) ==
    legacy_SummaryOf(legacy_FiveStatistics(fetched), unidad)

legacy_Resumen(unidad, dia, env) ==
    IF unidad \notin {Celsius, Fahrenheit, Kelvin} THEN legacy_UnitError
    ELSE Ok(legacy_Summary(legacy_get_measurements_list(dia, env), unidad))

resumen_diario(query_params, env) ==
    legacy_Respond(legacy_Resumen(legacy_Unidad(query_params.unidad),
                                  query_params.dia, env))

\* temp_unit = unidad if unidad != 'celsius' else '°C', then '°F' and 'K'
legacy_TempUnit(unidad) ==
    IF unidad = Fahrenheit THEN "°F" ELSE IF unidad = Kelvin THEN "K" ELSE "°C"

legacy_StatisticsRows(resumen, unidad) ==
    <<[parametro |-> "Temperatura", min |-> CsvCell(resumen.temperatura.min),
       max |-> CsvCell(resumen.temperatura.max),
       promedio |-> CsvCell(resumen.temperatura.promedio),
       unidad |-> legacy_TempUnit(unidad)],
      [parametro |-> "Humedad Relativa", min |-> CsvCell(resumen.humedad.min),
       max |-> CsvCell(resumen.humedad.max),
       promedio |-> CsvCell(resumen.humedad.promedio), unidad |-> "%"],
      [parametro |-> "Viento", min |-> CsvCell(resumen.viento.min),
       max |-> CsvCell(resumen.viento.max),
       promedio |-> CsvCell(resumen.viento.promedio), unidad |-> "km/h"],
      [parametro |-> "Rafaga de Viento", min |-> CsvCell(resumen.rafaga.min),
       max |-> CsvCell(resumen.rafaga.max),
       promedio |-> CsvCell(resumen.rafaga.promedio), unidad |-> "km/h"],
      [parametro |-> "Presion", min |-> CsvCell(resumen.presion.min),
       max |-> CsvCell(resumen.presion.max),
       promedio |-> CsvCell(resumen.presion.promedio), unidad |-> "mb"]>>

\* fecha = dia if dia else 'hoy'; f'..._{fecha}.csv'
legacy_Filename(base_name, dia) ==
    <<base_name, "_">> \o (IF Falsy(dia) THEN <<"hoy">> ELSE dia.s) \o <<".csv">>

legacy_StatisticsFile(resumen, unidad, dia) ==
    IF resumen.exc # "" THEN resumen
    ELSE Return(HttpResponse(<<"Parametro", "Minimo", "Maximo", "Promedio", "Unidad">>,
                             legacy_StatisticsRows(resumen.val, unidad),
                             legacy_Filename("estadisticas", dia)))

legacy_ExportStatistics(unidad, dia, env) ==
    IF unidad \notin {Celsius, Fahrenheit, Kelvin} THEN legacy_UnitError
    ELSE legacy_StatisticsFile(legacy_Summary(legacy_get_measurements_list(dia, env),
                                              unidad),
                               unidad, dia)

exportar_estadisticas(query_params, env) ==
    legacy_Respond(legacy_ExportStatistics(legacy_Unidad(query_params.unidad),
                                           query_params.dia, env))

\* if not measurements: the 404 response; measurements[0] of a number is a
\* TypeError
legacy_MeasurementsFile(measurements, dia) ==
    IF Falsy(measurements)
    THEN Return(Response(404, [error |-> <<"No measurements found for the specified date">>]))
    ELSE IF measurements.t # "list" THEN Raise("TypeError")
    ELSE Return(HttpResponse(measurements.items[1].keys,
                             MeasurementRows(measurements.items,
                                             measurements.items[1].keys),
                             legacy_Filename("mediciones", dia)))

legacy_FetchedFile(fetched, dia) ==
    IF fetched.exc # "" THEN fetched ELSE legacy_MeasurementsFile(fetched.val, dia)

exportar_mediciones(query_params, env) ==
    legacy_Respond(legacy_FetchedFile(legacy_get_measurements_list(query_params.dia, env),
                                      query_params.dia))

\* the GETs a function view sends: none when it refuses the unit
legacy_ViewRequests(unidad, dia, env) ==
    IF unidad \notin {Celsius, Fahrenheit, Kelvin} THEN <<>>
    ELSE legacy_RequestsSent(dia, env)

(***************************************************************************)
(* The inputs the operations are called with.                              *)
(***************************************************************************)
MaxRecords == 3

T0800 == PyStr(<<"0", "8", ":", "0", "0">>)

T1430 == PyStr(<<"1", "4", ":", "3", "0">>)

\* what the upstream reports under temperatura_c
TemperatureReadings ==
    { None, PyList, PyStr(<<"a", "b", "c">>), PyStr(<<"2", "5">>),
      PyFloat(FZero), PyFloat(Dec(1, 10)), PyFloat(Dec(256, 10)) }

Measurements ==
    { [temperatura_c |-> v] : v \in TemperatureReadings }
    \cup { [humedad_relativa |-> PyInt(50)],
           [temperatura_c |-> PyFloat(Dec(20, 1)), humedad_relativa |-> PyInt(60),
            timestamp |-> T0800],
           [temperatura_c |-> PyFloat(Dec(30, 1)), timestamp |-> T1430] }

MeasurementLists == UNION { [1..n -> Measurements] : n \in 0..MaxRecords }

FieldNames == {"temperatura_c", "humedad_relativa"}

UnitStrings ==
    { Celsius, Fahrenheit, Kelvin,
      <<"C", "e", "l", "s", "i", "u", "s">>,
      <<"K", "E", "L", "V", "I", "N">>,
      <<"F", "a", "h", "r", "e", "n", "H", "e", "i", "t">>,
      <<"i", "n", "v", "a", "l", "i", "d">>,
      <<"k", "e", "l", "v", "i", "n", "s">>,
      <<>> }

CelsiusValues ==
    { None, PyInt(0), PyInt(25), PyFloat(FZero), PyFloat(Dec(1, 10)),
      PyFloat(Dec(20, 1)), PyFloat(Dec(25, 1)), PyFloat(Dec(30, 1)),
      PyFloat(Dec(-55, 10)), PyFloat(Dec(-27315, 100)) }

StatValues == { None, PyFloat(FZero), PyFloat(Dec(20, 1)), PyFloat(Dec(30, 1)) }

PlainStats ==
    { [min |-> a, max |-> b, promedio |-> c] : a \in StatValues, b \in StatValues, c \in StatValues }
    \cup { [min |-> PyFloat(Dec(20, 1)), max |-> PyFloat(Dec(30, 1)),
            promedio |-> PyFloat(Dec(25, 1))] }

\* statistics carrying the times of the extremes
TimedStats ==
    { [min |-> st.min, max |-> st.max, promedio |-> st.promedio,
       min_time |-> T0800, max_time |-> T1430] : st \in PlainStats }

StatsInputs == PlainStats \cup TimedStats

\* the date argument of the client: absent, dates, and texts that are none
DateArgs ==
    { None, PyStr(<<>>),
      PyStr(<<"2", "0", "2", "3", "-", "0", "1", "-", "0", "1">>), PyStr(<<"2", "0", "2", "4", "-", "0", "6", "-", "1", "5">>), PyStr(<<"2", "0", "9", "9", "-", "0", "1", "-", "0", "1">>),
      PyStr(<<"2", "0", "2", "3", "-", "1", "-", "5">>), PyStr(<<"2", "0", "2", "3", "-", "0", "2", "-", "3", "0">>), PyStr(<<"2", "0", "2", "3", "-", "1", "3", "-", "0", "1">>),
      PyStr(<<"i", "n", "v", "a", "l", "i", "d", "-", "d", "a", "t", "e">>) }

Date(y, m, d) == [year |-> y, month |-> m, day |-> d]

\* the server's date and the date in Hermosillo at the time of the call:
\* the same day, or the server a day ahead
Clocks ==
    { [today |-> Date(2024, 6, 15), hermosillo |-> Date(2024, 6, 15)],
      [today |-> Date(2024, 6, 16), hermosillo |-> Date(2024, 6, 15)] }

Record255 == JObject(<<"temperatura_c">>, [temperatura_c |-> PyFloat(Dec(255, 10))])

Record20 ==
    JObject(<<"timestamp", "temperatura_c", "humedad_relativa">>,
            [temperatura_c |-> PyFloat(Dec(20, 1)), humedad_relativa |-> PyInt(60),
             timestamp |-> T0800])

\* what the upstream may store under results, data or mediciones
StoredValues ==
    { JArray(<<>>), JArray(<<Record255>>), JArray(<<Record20, Record255>>),
      None, PyInt(5), Record20 }

ContainerKeys == <<"mediciones", "data", "results">>

KeysAmong(present) == SelectSeq(ContainerKeys, LAMBDA k : k \in present)

ContainerReplies ==
    UNION { { JObject(KeysAmong(present), at) : at \in [present -> StoredValues] } :
            present \in (SUBSET {"results", "data", "mediciones"}) \ {{}} }

\* the JSON replies of the upstream: arrays, objects, scalars and null
Replies ==
    { JArray(<<>>), JArray(<<Record255>>), JArray(<<Record20, Record255>>),
      Record255, Record20, JObject(<<>>, <<>>),
      None, PyInt(5), PyFloat(Dec(255, 10)), PyStr(<<"a", "b", "c">>) }
    \cup ContainerReplies

Upstream(responds, status_code, json) ==
    [responds |-> responds, status_code |-> status_code, json |-> json]

Upstreams ==
    { Upstream(TRUE, 200, reply) : reply \in Replies }
    \cup { Upstream(TRUE, 201, JArray(<<Record255>>)),
           Upstream(TRUE, 300, JArray(<<Record255>>)),
           Upstream(TRUE, 404, JObject(<<>>, <<>>)),
           Upstream(TRUE, 500, None),
           Upstream(TRUE, 503, JArray(<<Record255>>)),
           Upstream(FALSE, 0, None) }

Environments == { [clock |-> clock, upstream |-> upstream] :
                  clock \in Clocks, upstream \in Upstreams }

\* the query parameters of a request: each absent (None) or a text
DiaParams ==
    { None, PyStr(<<>>),
      PyStr(<<"2", "0", "2", "3", "-", "0", "1", "-", "0", "1">>),
      PyStr(<<"2", "0", "2", "4", "-", "0", "6", "-", "1", "6">>),
      PyStr(<<"2", "0", "9", "9", "-", "0", "1", "-", "0", "1">>),
      PyStr(<<"2", "0", "2", "3", "-", "1", "-", "5">>),
      PyStr(<<"i", "n", "v", "a", "l", "i", "d", "-", "d", "a", "t", "e">>) }

UnidadParams ==
    { None, PyStr(<<>>), PyStr(Celsius), PyStr(Fahrenheit), PyStr(Kelvin),
      PyStr(<<"K", "E", "L", "V", "I", "N">>),
      PyStr(<<"i", "n", "v", "a", "l", "i", "d">>) }

QueryParams == [dia : DiaParams, unidad : UnidadParams]

RecordDay1 ==
    JObject(<<"timestamp", "temperatura_c", "humedad_relativa", "viento_kmh",
              "viento_rafaga_kmh", "presion_mb">>,
            [timestamp |-> T0800, temperatura_c |-> PyFloat(Dec(255, 10)),
             humedad_relativa |-> PyInt(60), viento_kmh |-> PyFloat(Dec(105, 10)),
             viento_rafaga_kmh |-> PyInt(15), presion_mb |-> PyFloat(Dec(10132, 10))])

RecordDay2 ==
    JObject(<<"timestamp", "temperatura_c", "humedad_relativa", "viento_kmh",
              "viento_rafaga_kmh", "presion_mb">>,
            [timestamp |-> T1430, temperatura_c |-> PyInt(-5),
             humedad_relativa |-> PyStr(<<"5", "5", ".", "5">>), viento_kmh |-> PyInt(0),
             viento_rafaga_kmh |-> PyFloat(Dec(205, 10)), presion_mb |-> None])

RecordZero == JObject(<<"temperatura_c">>, [temperatura_c |-> PyInt(0)])

RecordPlus5 == JObject(<<"temperatura_c">>, [temperatura_c |-> PyInt(5)])

\* the replies the views are run against: lists of records, the containers
\* of one, a single record, and replies that hold no list
HandlerReplies ==
    { JArray(<<>>), JArray(<<Record255>>), JArray(<<Record20, Record255>>),
      JArray(<<RecordDay1, RecordDay2>>),
      JArray(<<RecordZero>>), JArray(<<RecordDay2, RecordPlus5>>),
      JObject(<<"results">>, [results |-> JArray(<<RecordDay1, RecordDay2>>)]),
      JObject(<<"data">>, [data |-> JArray(<<>>)]),
      JObject(<<"results">>, [results |-> None]),
      JObject(<<"mediciones">>, [mediciones |-> PyInt(5)]),
      Record20, None }

HandlerUpstreams ==
    { Upstream(TRUE, 200, reply) : reply \in HandlerReplies }
    \cup { Upstream(TRUE, 300, JArray(<<Record255>>)),
           Upstream(TRUE, 404, JObject(<<>>, <<>>)),
           Upstream(TRUE, 500, None),
           Upstream(FALSE, 0, None) }

HandlerEnvironments == { [clock |-> clock, upstream |-> upstream] :
                         clock \in Clocks, upstream \in HandlerUpstreams }

(***************************************************************************)
(* Operations.  Every entity is created for one call and dropped after it, *)
(* so a behaviour is one call, and for the temperature pipeline the        *)
(* conversion of the statistics just computed.                             *)
(***************************************************************************)
Idle == [op |-> "none"]

\* the requests followed when several are handled at the same time
MaxRequests == 2

Requests == 1..MaxRequests

\* a request nobody has sent yet
Waiting ==
    [pc |-> "waiting", view |-> "none", query_params |-> None, env |-> None,
     validated |-> Return(None), measurements |-> Return(None),
     outcome |-> Return(None), response |-> None]

Init ==
    /\ sumAlgorithm \in {"sequential", "compensated"}
    /\ call = Idle
    /\ ret = Return(None)
    /\ gets = <<>>
    /\ handling = [r \in Requests |-> Waiting]

\* Variant: the loop takes the records out of the list as it reads them.
RecordsConsumed(measurements, field) == <<>>

\* the list and its records as calculate_statistics leaves them: the loop
\* reads measurement[field] and appends to its own list, values
RecordsLeftBy(measurements, field) == [i \in DOMAIN measurements |-> measurements[i]]

\* the statistics as convert_temperature_stats leaves them: it reads them
\* with get and builds a new dict
StatsLeftBy(stats, unit) == stats

CalculateStatistics ==
    /\ call = Idle
    /\ \E measurements \in MeasurementLists, field \in FieldNames :
          /\ call' = [op |-> "calculate_statistics",
                      measurements |-> measurements, field |-> field,
                      left |-> RecordsLeftBy(measurements, field)]
          /\ ret' = calculate_statistics(measurements, field)
    /\ UNCHANGED <<sumAlgorithm, gets, handling>>

ConvertTemperature ==
    /\ call = Idle
    /\ \E temp_celsius \in CelsiusValues, unit \in UnitStrings :
          /\ call' = [op |-> "convert_temperature",
                      temp_celsius |-> temp_celsius, unit |-> unit]
          /\ ret' = convert_temperature(temp_celsius, unit)
    /\ UNCHANGED <<sumAlgorithm, gets, handling>>

ConvertTemperatureStats ==
    /\ call = Idle
    /\ \E stats \in StatsInputs, unit \in UnitStrings :
          /\ call' = [op |-> "convert_temperature_stats", stats |-> stats,
                      unit |-> unit, measurements |-> <<>>, field |-> "",
                      left |-> StatsLeftBy(stats, unit)]
          /\ ret' = convert_temperature_stats(stats, unit)
    /\ UNCHANGED <<sumAlgorithm, gets, handling>>

\* What the handlers pass on: the serializer admits celsius, fahrenheit and
\* kelvin, and the conversion is skipped for celsius.
HandlerUnits == {Fahrenheit, Kelvin}

\* the temperature statistics computed from measurements, converted as the
\* handlers do
ConvertComputedStats ==
    /\ call.op = "calculate_statistics"
    /\ call.field = "temperatura_c"
    /\ ret.exc = ""
    /\ \E unit \in HandlerUnits :
          /\ call' = [op |-> "convert_temperature_stats", stats |-> ret.val,
                      unit |-> unit, measurements |-> call.measurements,
                      field |-> call.field, left |-> StatsLeftBy(ret.val, unit)]
          /\ ret' = convert_temperature_stats(ret.val, unit)
    /\ UNCHANGED <<sumAlgorithm, gets, handling>>

GetMeasurementsByDate ==
    /\ call = Idle
    /\ \E date_str \in DateArgs, env \in Environments :
          /\ call' = [op |-> "get_measurements_by_date", date_str |-> date_str,
                      env |-> env]
          /\ ret' = get_measurements_by_date(date_str, env)
          /\ gets' = gets \o RequestsSent(date_str, env)
    /\ UNCHANGED <<sumAlgorithm, handling>>

GetMeasurementsList ==
    /\ call = Idle
    /\ \E date_str \in DateArgs, env \in Environments :
          /\ call' = [op |-> "get_measurements_list", date_str |-> date_str,
                      env |-> env]
          /\ ret' = get_measurements_list(date_str, env)
          /\ gets' = gets \o RequestsSent(date_str, env)
    /\ UNCHANGED <<sumAlgorithm, handling>>

\* A request to a class-based view: dispatch calls get and answers with its
\* response, or with the one handle_exception makes of what it raised.
TemperatureStatisticsView ==
    /\ call = Idle
    /\ \E query_params \in QueryParams, env \in HandlerEnvironments :
          /\ call' = [op |-> "TemperatureStatisticsView", query_params |-> query_params, env |-> env]
          /\ ret' = Return(handle_exception(TemperatureStatisticsView_get(query_params, env)))
          /\ gets' = gets \o ViewRequests(TemperatureQuerySerializer(query_params, env.clock), env)
    /\ UNCHANGED <<sumAlgorithm, handling>>

HumidityStatisticsView ==
    /\ call = Idle
    /\ \E query_params \in QueryParams, env \in HandlerEnvironments :
          /\ call' = [op |-> "HumidityStatisticsView", query_params |-> query_params, env |-> env]
          /\ ret' = Return(handle_exception(HumidityStatisticsView_get(query_params, env)))
          /\ gets' = gets \o ViewRequests(WeatherQuerySerializer(query_params, env.clock), env)
    /\ UNCHANGED <<sumAlgorithm, handling>>

WindStatisticsView ==
    /\ call = Idle
    /\ \E query_params \in QueryParams, env \in HandlerEnvironments :
          /\ call' = [op |-> "WindStatisticsView", query_params |-> query_params, env |-> env]
          /\ ret' = Return(handle_exception(WindStatisticsView_get(query_params, env)))
          /\ gets' = gets \o ViewRequests(WeatherQuerySerializer(query_params, env.clock), env)
    /\ UNCHANGED <<sumAlgorithm, handling>>

WindGustStatisticsView ==
    /\ call = Idle
    /\ \E query_params \in QueryParams, env \in HandlerEnvironments :
          /\ call' = [op |-> "WindGustStatisticsView", query_params |-> query_params, env |-> env]
          /\ ret' = Return(handle_exception(WindGustStatisticsView_get(query_params, env)))
          /\ gets' = gets \o ViewRequests(WeatherQuerySerializer(query_params, env.clock), env)
    /\ UNCHANGED <<sumAlgorithm, handling>>

PressureStatisticsView ==
    /\ call = Idle
    /\ \E query_params \in QueryParams, env \in HandlerEnvironments :
          /\ call' = [op |-> "PressureStatisticsView", query_params |-> query_params, env |-> env]
          /\ ret' = Return(handle_exception(PressureStatisticsView_get(query_params, env)))
          /\ gets' = gets \o ViewRequests(WeatherQuerySerializer(query_params, env.clock), env)
    /\ UNCHANGED <<sumAlgorithm, handling>>

DailySummaryView ==
    /\ call = Idle
    /\ \E query_params \in QueryParams, env \in HandlerEnvironments :
          /\ call' = [op |-> "DailySummaryView", query_params |-> query_params, env |-> env]
          /\ ret' = Return(handle_exception(DailySummaryView_get(query_params, env)))
          /\ gets' = gets \o ViewRequests(TemperatureQuerySerializer(query_params, env.clock), env)
    /\ UNCHANGED <<sumAlgorithm, handling>>

ExportStatisticsView ==
    /\ call = Idle
    /\ \E query_params \in QueryParams, env \in HandlerEnvironments :
          /\ call' = [op |-> "ExportStatisticsView", query_params |-> query_params, env |-> env]
          /\ ret' = Return(handle_exception(ExportStatisticsView_get(query_params, env)))
          /\ gets' = gets \o ViewRequests(CSVExportQuerySerializer(query_params, env.clock), env)
    /\ UNCHANGED <<sumAlgorithm, handling>>

ExportMeasurementsView ==
    /\ call = Idle
    /\ \E query_params \in QueryParams, env \in HandlerEnvironments :
          /\ call' = [op |-> "ExportMeasurementsView", query_params |-> query_params, env |-> env]
          /\ ret' = Return(handle_exception(ExportMeasurementsView_get(query_params, env)))
          /\ gets' = gets \o ViewRequests(WeatherQuerySerializer(query_params, env.clock), env)
    /\ UNCHANGED <<sumAlgorithm, handling>>

\* A request to a function view.
TemperaturaEstadisticas ==
    /\ call = Idle
    /\ \E query_params \in QueryParams, env \in HandlerEnvironments :
          /\ call' = [op |-> "temperatura_estadisticas", query_params |-> query_params, env |-> env]
          /\ ret' = Return(temperatura_estadisticas(query_params, env))
          /\ gets' = gets \o legacy_ViewRequests(legacy_Unidad(query_params.unidad), query_params.dia, env)
    /\ UNCHANGED <<sumAlgorithm, handling>>

HumedadEstadisticas ==
    /\ call = Idle
    /\ \E query_params \in QueryParams, env \in HandlerEnvironments :
          /\ call' = [op |-> "humedad_estadisticas", query_params |-> query_params, env |-> env]
          /\ ret' = Return(humedad_estadisticas(query_params, env))
          /\ gets' = gets \o legacy_ViewRequests(Celsius, query_params.dia, env)
    /\ UNCHANGED <<sumAlgorithm, handling>>

VientoEstadisticas ==
    /\ call = Idle
    /\ \E query_params \in QueryParams, env \in HandlerEnvironments :
          /\ call' = [op |-> "viento_estadisticas", query_params |-> query_params, env |-> env]
          /\ ret' = Return(viento_estadisticas(query_params, env))
          /\ gets' = gets \o legacy_ViewRequests(Celsius, query_params.dia, env)
    /\ UNCHANGED <<sumAlgorithm, handling>>

RafagaEstadisticas ==
    /\ call = Idle
    /\ \E query_params \in QueryParams, env \in HandlerEnvironments :
          /\ call' = [op |-> "rafaga_estadisticas", query_params |-> query_params, env |-> env]
          /\ ret' = Return(rafaga_estadisticas(query_params, env))
          /\ gets' = gets \o legacy_ViewRequests(Celsius, query_params.dia, env)
    /\ UNCHANGED <<sumAlgorithm, handling>>

PresionEstadisticas ==
    /\ call = Idle
    /\ \E query_params \in QueryParams, env \in HandlerEnvironments :
          /\ call' = [op |-> "presion_estadisticas", query_params |-> query_params, env |-> env]
          /\ ret' = Return(presion_estadisticas(query_params, env))
          /\ gets' = gets \o legacy_ViewRequests(Celsius, query_params.dia, env)
    /\ UNCHANGED <<sumAlgorithm, handling>>

ResumenDiario ==
    /\ call = Idle
    /\ \E query_params \in QueryParams, env \in HandlerEnvironments :
          /\ call' = [op |-> "resumen_diario", query_params |-> query_params, env |-> env]
          /\ ret' = Return(resumen_diario(query_params, env))
          /\ gets' = gets \o legacy_ViewRequests(legacy_Unidad(query_params.unidad), query_params.dia, env)
    /\ UNCHANGED <<sumAlgorithm, handling>>

ExportarEstadisticas ==
    /\ call = Idle
    /\ \E query_params \in QueryParams, env \in HandlerEnvironments :
          /\ call' = [op |-> "exportar_estadisticas", query_params |-> query_params, env |-> env]
          /\ ret' = Return(exportar_estadisticas(query_params, env))
          /\ gets' = gets \o legacy_ViewRequests(legacy_Unidad(query_params.unidad), query_params.dia, env)
    /\ UNCHANGED <<sumAlgorithm, handling>>

ExportarMediciones ==
    /\ call = Idle
    /\ \E query_params \in QueryParams, env \in HandlerEnvironments :
          /\ call' = [op |-> "exportar_mediciones", query_params |-> query_params, env |-> env]
          /\ ret' = Return(exportar_mediciones(query_params, env))
          /\ gets' = gets \o legacy_ViewRequests(Celsius, query_params.dia, env)
    /\ UNCHANGED <<sumAlgorithm, handling>>

Next ==
    \/ CalculateStatistics
    \/ ConvertTemperature
    \/ ConvertTemperatureStats
    \/ ConvertComputedStats
    \/ GetMeasurementsByDate
    \/ GetMeasurementsList
    \/ TemperatureStatisticsView
    \/ HumidityStatisticsView
    \/ WindStatisticsView
    \/ WindGustStatisticsView
    \/ PressureStatisticsView
    \/ DailySummaryView
    \/ ExportStatisticsView
    \/ ExportMeasurementsView
    \/ TemperaturaEstadisticas
    \/ HumedadEstadisticas
    \/ VientoEstadisticas
    \/ RafagaEstadisticas
    \/ PresionEstadisticas
    \/ ResumenDiario
    \/ ExportarEstadisticas
    \/ ExportarMediciones

Spec == Init /\ [][Next]_vars

(***************************************************************************)
(* Requests handled at the same time.  The server runs one get per         *)
(* request; each get builds its own serializer, its own client and works   *)
(* on its own locals, and the statements of several gets interleave.  A    *)
(* request is followed statement by statement: is_valid, the client's      *)
(* get_measurements_list, the processor's computation, the response.       *)
(***************************************************************************)
ConcurrentViews == {"TemperatureStatisticsView", "ExportMeasurementsView"}

ConcurrentParams ==
    { [dia |-> None, unidad |-> PyStr(Fahrenheit)],
      [dia |-> PyStr(<<"2", "0", "9", "9", "-", "0", "1", "-", "0", "1">>),
       unidad |-> None] }

ConcurrentEnvironments ==
    { [clock |-> [today |-> Date(2024, 6, 15), hermosillo |-> Date(2024, 6, 15)],
       upstream |-> upstream] :
      upstream \in { Upstream(TRUE, 200, JArray(<<RecordDay1, RecordDay2>>)),
                     Upstream(TRUE, 200, JArray(<<RecordZero>>)),
                     Upstream(FALSE, 0, None) } }

\* the serializer the view's get builds
SerializerOf(view, query_params, clock) ==
    IF view \in {"TemperatureStatisticsView", "DailySummaryView"}
    THEN TemperatureQuerySerializer(query_params, clock)
    ELSE IF view = "ExportStatisticsView"
    THEN CSVExportQuerySerializer(query_params, clock)
    ELSE WeatherQuerySerializer(query_params, clock)

\* what the view's get does with the measurements its client returned
ComputedBy(view, validated, measurements) ==
    CASE view = "TemperatureStatisticsView" ->
             Ok(InUnit(FieldStatistics(measurements, WEATHER_FIELDS.temperatura),
                       validated.unidad))
      [] view = "HumidityStatisticsView" ->
             Ok(FieldStatistics(measurements, WEATHER_FIELDS.humedad))
      [] view = "WindStatisticsView" ->
             Ok(FieldStatistics(measurements, WEATHER_FIELDS.viento))
      [] view = "WindGustStatisticsView" ->
             Ok(FieldStatistics(measurements, WEATHER_FIELDS.rafaga))
      [] view = "PressureStatisticsView" ->
             Ok(FieldStatistics(measurements, WEATHER_FIELDS.presion))
      [] view = "DailySummaryView" ->
             Ok(Summary(measurements, validated.unidad))
      [] view = "ExportStatisticsView" ->
             StatisticsFile(Summary(measurements, validated.unidad),
                            validated.unidad, DiaStr(validated.dia))
      [] view = "ExportMeasurementsView" ->
             FetchedFile(measurements, DiaStr(validated.dia))

\* Variant: the measurements are read from a place all requests share, where
\* the first request's client left them.
FetchedByFirst(handled, r) == handled[1].measurements

\* the local measurements of the get that handles request r
FetchedBy(handled, r) == handled[r].measurements

\* the request arrives and its get is entered
Receive(r) ==
    /\ handling[r].pc = "waiting"
    /\ \E view \in ConcurrentViews, query_params \in ConcurrentParams,
          env \in ConcurrentEnvironments :
          handling' = [handling EXCEPT ![r] =
                          [@ EXCEPT !.pc = "is_valid", !.view = view,
                                    !.query_params = query_params, !.env = env]]
    /\ UNCHANGED <<sumAlgorithm, call, ret, gets>>

\* serializer.is_valid(raise_exception=True)
IsValid(r) ==
    /\ handling[r].pc = "is_valid"
    /\ handling' = [handling EXCEPT ![r] =
           [@ EXCEPT !.validated = SerializerOf(handling[r].view,
                                              handling[r].query_params,
                                              handling[r].env.clock),
                     !.pc = "validated"]]
    /\ UNCHANGED <<sumAlgorithm, call, ret, gets>>

\* a ValidationError leaves the get
Refused(r) ==
    /\ handling[r].pc = "validated"
    /\ handling[r].validated.exc # ""
    /\ handling' = [handling EXCEPT ![r] =
           [@ EXCEPT !.outcome = handling[r].validated, !.pc = "handle_exception"]]
    /\ UNCHANGED <<sumAlgorithm, call, ret, gets>>

\* what the get holds once its client has answered: the measurements, or
\* the exception that leaves the get
Fetched(request, fetched) ==
    IF fetched.exc # ""
    THEN [request EXCEPT !.outcome = fetched, !.pc = "handle_exception"]
    ELSE [request EXCEPT !.measurements = fetched, !.pc = "calculate_statistics"]

\* client = GlobalMetAPIClient(); measurements = client.get_measurements_list(dia_str)
GetList(r) ==
    /\ handling[r].pc = "validated"
    /\ handling[r].validated.exc = ""
    /\ handling' = [handling EXCEPT ![r] =
           Fetched(@, get_measurements_list(DiaStr(handling[r].validated.val.dia),
                                            handling[r].env))]
    /\ gets' = gets \o RequestsSent(DiaStr(handling[r].validated.val.dia),
                                    handling[r].env)
    /\ UNCHANGED <<sumAlgorithm, call, ret>>

\* the processor's work, on the get's own measurements
Calculate(r) ==
    /\ handling[r].pc = "calculate_statistics"
    /\ handling' = [handling EXCEPT ![r] =
           [@ EXCEPT !.outcome = ComputedBy(handling[r].view,
                                            handling[r].validated.val,
                                            FetchedBy(handling, r)),
                     !.pc = "handle_exception"]]
    /\ UNCHANGED <<sumAlgorithm, call, ret, gets>>

\* the response is returned, or made of the exception raised
Respond(r) ==
    /\ handling[r].pc = "handle_exception"
    /\ handling' = [handling EXCEPT ![r] =
           [@ EXCEPT !.response = handle_exception(handling[r].outcome), !.pc = "done"]]
    /\ UNCHANGED <<sumAlgorithm, call, ret, gets>>

NextConcurrent ==
    \/ \E r \in Requests : Receive(r)
    \/ \E r \in Requests : IsValid(r)
    \/ \E r \in Requests : Refused(r)
    \/ \E r \in Requests : GetList(r)
    \/ \E r \in Requests : Calculate(r)
    \/ \E r \in Requests : Respond(r)

SpecConcurrent == Init /\ [][NextConcurrent]_vars

(***************************************************************************)
(* Properties.                                                             *)
(***************************************************************************)
InCalculateStatistics == call.op = "calculate_statistics"

InConvertTemperature == call.op = "convert_temperature"

InConvertTemperatureStats == call.op = "convert_temperature_stats"

\* a and b are the same text up to the case of the letters
SameIgnoringCase(a, b) ==
    /\ Len(a) = Len(b)
    /\ \A i \in DOMAIN a :
          \/ a[i] = b[i]
          \/ \E k \in DOMAIN UpperCase :
                {a[i], b[i]} = {UpperCase[k], LowerCase[k]}

NamesUnit(unit, name) == SameIgnoringCase(unit, name)

SupportedUnit(unit) == \E name \in {Celsius, Fahrenheit, Kelvin} : NamesUnit(unit, name)

\* the records whose value for the field is usable: present, not null, a number
ValidIndices(measurements, field) ==
    { i \in DOMAIN measurements :
        /\ field \in DOMAIN measurements[i]
        /\ measurements[i][field] # None
        /\ float(measurements[i][field]).exc = "" }

\* the k-th smallest element of a set of integers
NthOf(S, k) == CHOOSE i \in S : Cardinality({j \in S : j < i}) = k - 1

ValidValues(measurements, field) ==
    [k \in 1..Cardinality(ValidIndices(measurements, field)) |->
        float(measurements[NthOf(ValidIndices(measurements, field), k)][field]).val]

ValidStatistics(stats, values) ==
    IF values = <<>>
    THEN stats = [min |-> None, max |-> None, promedio |-> None]
    ELSE /\ \E i \in DOMAIN values : stats.min = values[i]
         /\ \A i \in DOMAIN values : FLe(stats.min.f, values[i].f)
         /\ \E i \in DOMAIN values : stats.max = values[i]
         /\ \A i \in DOMAIN values : FLe(values[i].f, stats.max.f)
         /\ stats.promedio = PyFloat(FDivInt(sum(values), Len(values)))

\* C1: for a non-empty list of records calculate_statistics returns, without
\* error, the statistics of exactly the valid values (field present, not
\* null, coercible to a number): all null when there is none, otherwise the
\* smallest, the largest, and their sum divided by their count.
C1_StatisticsOverValidValues ==
    (InCalculateStatistics /\ call.measurements # <<>>)
        => /\ ret.exc = ""
           /\ ValidStatistics(ret.val, ValidValues(call.measurements, call.field))

\* C1 witness: a list of a non-numeric text, the number 0.1 and the numeric
\* text "25", whose statistics are those of 0.1 and 25.0.
C1_Witness ==
    /\ InCalculateStatistics
    /\ call.field = "temperatura_c"
    /\ Len(call.measurements) = 3
    /\ \E i \in DOMAIN call.measurements :
          call.measurements[i] = [temperatura_c |-> PyStr(<<"a", "b", "c">>)]
    /\ Cardinality(ValidIndices(call.measurements, call.field)) = 2
    /\ ret.exc = ""
    /\ ret.val.min = PyFloat(Dec(1, 10))
    /\ ret.val.max = PyFloat(Dec(25, 1))

\* C2: calculate_statistics on an empty list of records raises
\* NoDataFoundException, whatever the field name, and returns nothing.
C2_EmptyListRaisesNoData ==
    (InCalculateStatistics /\ call.measurements = <<>>)
        => ret = Raise("NoDataFoundException")

\* C2 witness: the call on the empty list for the humidity field has raised.
C2_Witness ==
    /\ InCalculateStatistics
    /\ call.measurements = <<>>
    /\ call.field = "humedad_relativa"
    /\ ret.exc = "NoDataFoundException"

\* C3: when at least one record carries a valid number for the field, the
\* result satisfies min <= average <= max.
C3_MinAverageMax ==
    (InCalculateStatistics /\ ret.exc = "" /\ ret.val.min # None)
        => /\ FLe(ret.val.min.f, ret.val.promedio.f)
           /\ FLe(ret.val.promedio.f, ret.val.max.f)

\* v * 9/5 + 32 and v + 273.15 in float arithmetic, left to right
InFahrenheit(v) == FAdd(FDivInt(FMulInt(v, 9), 5), FromInt(32))

InKelvin(v) == FAdd(v, Dec(27315, 100))

\* C4: for a non-null Celsius value v, convert_temperature returns v itself
\* for celsius, v*9/5+32 for fahrenheit and v+273.15 for kelvin; 25 gives 77.0
\* and 298.15, 0 gives 32 and 273.15.
C4_ConversionFormulas ==
    (InConvertTemperature /\ call.temp_celsius # None)
        => /\ NamesUnit(call.unit, Celsius) => ret = Return(call.temp_celsius)
           /\ NamesUnit(call.unit, Fahrenheit)
                 => ret = Return(PyFloat(InFahrenheit(call.temp_celsius.f)))
           /\ NamesUnit(call.unit, Kelvin)
                 => ret = Return(PyFloat(InKelvin(call.temp_celsius.f)))
           /\ (call.temp_celsius.f = FromInt(25) /\ NamesUnit(call.unit, Fahrenheit))
                 => ret.val.f = FromInt(77)
           /\ (call.temp_celsius.f = FromInt(25) /\ NamesUnit(call.unit, Kelvin))
                 => ret.val.f = Dec(29815, 100)
           /\ (call.temp_celsius.f = FZero /\ NamesUnit(call.unit, Fahrenheit))
                 => ret.val.f = FromInt(32)
           /\ (call.temp_celsius.f = FZero /\ NamesUnit(call.unit, Kelvin))
                 => ret.val.f = Dec(27315, 100)

\* C4 witness: 25.0 converted to kelvin has returned the float 298.15.
C4_Witness ==
    /\ InConvertTemperature
    /\ call.temp_celsius = PyFloat(Dec(25, 1))
    /\ call.unit = Kelvin
    /\ ret = Return(PyFloat(Dec(29815, 100)))

\* C5: convert_temperature accepts exactly celsius, fahrenheit and kelvin,
\* whatever the case of the letters; any other unit raises
\* InvalidTemperatureUnitException and returns no value.
C5_AcceptsExactlySupportedUnits ==
    InConvertTemperature
        => IF SupportedUnit(call.unit)
           THEN ret.exc = ""
           ELSE ret = Raise("InvalidTemperatureUnitException")

\* C5 witness: the unit "kelvins" with the value 25.0 has been refused.
C5_Witness ==
    /\ InConvertTemperature
    /\ call.unit = <<"k", "e", "l", "v", "i", "n", "s">>
    /\ call.temp_celsius = PyFloat(Dec(25, 1))
    /\ ret = Raise("InvalidTemperatureUnitException")

\* C6 as stated: convert_temperature called with a null value returns null and
\* raises no error.
C6_NullAlwaysPassesThrough ==
    (InConvertTemperature /\ call.temp_celsius = None) => ret = Return(None)

\* C6 as amended: convert_temperature called with a null value and a
\* supported unit returns null and raises no error; with an unsupported unit
\* it raises InvalidTemperatureUnitException, the unit being validated first.
C6_NullPassesThroughForSupportedUnit ==
    (InConvertTemperature /\ call.temp_celsius = None)
        => IF SupportedUnit(call.unit)
           THEN ret = Return(None)
           ELSE ret = Raise("InvalidTemperatureUnitException")

\* C6 witness: null converted to fahrenheit has come back as null.
C6_Witness ==
    /\ InConvertTemperature
    /\ call.temp_celsius = None
    /\ call.unit = Fahrenheit
    /\ ret = Return(None)

\* C7: convert_temperature_stats with an unsupported unit raises
\* InvalidTemperatureUnitException for any statistics, all-null ones
\* included, and never returns them.
C7_InvalidUnitAlwaysRaises ==
    (InConvertTemperatureStats /\ ~SupportedUnit(call.unit))
        => ret = Raise("InvalidTemperatureUnitException")

\* C7 witness: all-null statistics with the unit "invalid" have raised.
C7_Witness ==
    /\ InConvertTemperatureStats
    /\ call.stats = [min |-> None, max |-> None, promedio |-> None]
    /\ call.unit = <<"i", "n", "v", "a", "l", "i", "d">>
    /\ ret = Raise("InvalidTemperatureUnitException")

NullOrFalsy(v) == v = None \/ (v.t \in {"float", "int"} /\ v.f = FZero)

AllNullOrFalsy(stats) ==
    /\ NullOrFalsy(Get(stats, "min"))
    /\ NullOrFalsy(Get(stats, "max"))
    /\ NullOrFalsy(Get(stats, "promedio"))

\* C8: for a supported unit convert_temperature_stats returns its input
\* unchanged when min, max and average are all null or falsy, and otherwise a
\* result whose min, max and average are the convert_temperature images of
\* the input's; 20/30/25 in fahrenheit gives 68/86/77.
C8_ConvertsEachStatistic ==
    (InConvertTemperatureStats /\ SupportedUnit(call.unit))
        => /\ ret.exc = ""
           /\ IF AllNullOrFalsy(call.stats)
              THEN ret.val = call.stats
              ELSE /\ Return(ret.val.min) = convert_temperature(Get(call.stats, "min"), call.unit)
                   /\ Return(ret.val.max) = convert_temperature(Get(call.stats, "max"), call.unit)
                   /\ Return(ret.val.promedio)
                         = convert_temperature(Get(call.stats, "promedio"), call.unit)
           /\ (/\ call.stats = [min |-> PyFloat(Dec(20, 1)), max |-> PyFloat(Dec(30, 1)),
                                promedio |-> PyFloat(Dec(25, 1))]
               /\ call.unit = Fahrenheit)
                 => ret.val = [min |-> PyFloat(FromInt(68)), max |-> PyFloat(FromInt(86)),
                               promedio |-> PyFloat(FromInt(77))]

\* C8 witness: 20/30/25 converted to fahrenheit has given 68/86/77.
C8_Witness ==
    /\ InConvertTemperatureStats
    /\ call.stats = [min |-> PyFloat(Dec(20, 1)), max |-> PyFloat(Dec(30, 1)),
                     promedio |-> PyFloat(Dec(25, 1))]
    /\ call.unit = Fahrenheit
    /\ ret = Return([min |-> PyFloat(FromInt(68)), max |-> PyFloat(FromInt(86)),
                     promedio |-> PyFloat(FromInt(77))])

TimeFields == {"min_time", "max_time"}

\* C9 as stated: when convert_temperature_stats converts statistics that
\* carry min_time and max_time, the result carries them unmodified.
C9_TimestampsPassThrough ==
    (InConvertTemperatureStats /\ ret.exc = "" /\ ~AllNullOrFalsy(call.stats))
        => \A k \in TimeFields \cap DOMAIN call.stats :
              k \in DOMAIN ret.val /\ ret.val[k] = call.stats[k]

\* C9 as amended: when convert_temperature_stats converts, the result holds
\* min, max and promedio and nothing else, so timestamp fields of the input
\* are dropped; they come back, unmodified, only when the input is returned
\* unchanged because min, max and average are all null or falsy.
C9_ConversionKeepsOnlyStatistics ==
    (InConvertTemperatureStats /\ ret.exc = "")
        => IF AllNullOrFalsy(call.stats)
           THEN \A k \in TimeFields \cap DOMAIN call.stats :
                   k \in DOMAIN ret.val /\ ret.val[k] = call.stats[k]
           ELSE DOMAIN ret.val = {"min", "max", "promedio"}

\* C9 witness: statistics 20/30/20 with both times, converted to kelvin, have
\* come back without the times.
C9_Witness ==
    /\ InConvertTemperatureStats
    /\ call.stats = [min |-> PyFloat(Dec(20, 1)), max |-> PyFloat(Dec(30, 1)),
                     promedio |-> PyFloat(Dec(20, 1)),
                     min_time |-> T0800, max_time |-> T1430]
    /\ call.unit = Kelvin
    /\ ret.exc = ""
    /\ TimeFields \cap DOMAIN ret.val = {}

\* the timestamp of a record: the sentinel when it carries none
TimeOf(measurement) ==
    IF "timestamp" \in DOMAIN measurement THEN measurement["timestamp"]
    ELSE PyStr(<<"-", "-">>)

\* the first valid record, in input order, whose value equals v
FirstWith(measurements, field, v) ==
    CHOOSE i \in ValidIndices(measurements, field) :
        /\ float(measurements[i][field]).val = v
        /\ \A j \in ValidIndices(measurements, field) :
              float(measurements[j][field]).val = v => i <= j

\* C10 as stated: the statistics result reports min_time and max_time, the
\* timestamp of the first record in input order whose value equals the
\* minimum, respectively the maximum.
C10_ReportsTimesOfExtremes ==
    (InCalculateStatistics /\ ret.exc = "" /\ ret.val.min # None)
        => /\ TimeFields \subseteq DOMAIN ret.val
           /\ ret.val["min_time"] =
                 TimeOf(call.measurements[FirstWith(call.measurements, call.field, ret.val.min)])
           /\ ret.val["max_time"] =
                 TimeOf(call.measurements[FirstWith(call.measurements, call.field, ret.val.max)])

\* C10 as amended: the statistics result reports min, max and promedio and
\* nothing else: it carries no min_time or max_time, whatever timestamps the
\* records carry; min and max are the values of records of the input, ties
\* making no difference.
C10_ReportsNoTimes ==
    (InCalculateStatistics /\ ret.exc = "")
        => /\ DOMAIN ret.val = {"min", "max", "promedio"}
           /\ ret.val.min # None
                 => /\ \E i \in ValidIndices(call.measurements, call.field) :
                          float(call.measurements[i][call.field]).val = ret.val.min
                    /\ \E i \in ValidIndices(call.measurements, call.field) :
                          float(call.measurements[i][call.field]).val = ret.val.max

\* C10 witness: two records tie for the minimum 20.0 and carry timestamps, a
\* third holds the maximum 30.0 at 14:30; the result has no time fields.
C10_Witness ==
    /\ InCalculateStatistics
    /\ call.field = "temperatura_c"
    /\ Len(call.measurements) = 3
    /\ call.measurements[1] = call.measurements[2]
    /\ TimeOf(call.measurements[1]) = T0800
    /\ TimeOf(call.measurements[3]) = T1430
    /\ ret.exc = ""
    /\ ret.val.min = PyFloat(Dec(20, 1))
    /\ ret.val.max = PyFloat(Dec(30, 1))
    /\ TimeFields \cap DOMAIN ret.val = {}

InGetMeasurementsByDate == call.op = "get_measurements_by_date"

InGetMeasurementsList == call.op = "get_measurements_list"

\* the upstream was asked and answered with a status that is no error
Answered ==
    /\ gets # <<>>
    /\ call.env.upstream.responds
    /\ call.env.upstream.status_code \in 200..399

Reply == call.env.upstream.json

HasKey(data, k) == k \in DOMAIN data.at

\* C11: get_measurements_list normalizes the reply in this order: an array
\* is returned as is; else an object yields the value under results, else
\* under data, else under mediciones, else itself in a one-element list; any
\* other reply yields the empty list.  An object with several of the keys
\* resolves to results before data before mediciones, and {results: L}
\* normalizes as the array L does.
C11_NormalizesByPriority ==
    (InGetMeasurementsList /\ Answered)
        => /\ ret.exc = ""
           /\ Reply.t = "list" => ret.val = Reply
           /\ (Reply.t = "dict" /\ HasKey(Reply, "results"))
                 => ret.val = Reply.at["results"]
           /\ (Reply.t = "dict" /\ ~HasKey(Reply, "results") /\ HasKey(Reply, "data"))
                 => ret.val = Reply.at["data"]
           /\ (/\ Reply.t = "dict"
               /\ ~HasKey(Reply, "results") /\ ~HasKey(Reply, "data")
               /\ HasKey(Reply, "mediciones"))
                 => ret.val = Reply.at["mediciones"]
           /\ (/\ Reply.t = "dict"
               /\ ~HasKey(Reply, "results") /\ ~HasKey(Reply, "data")
               /\ ~HasKey(Reply, "mediciones"))
                 => ret.val = JArray(<<Reply>>)
           /\ Reply.t \notin {"list", "dict"} => ret.val = JArray(<<>>)
           /\ (Reply.t = "dict" /\ Reply.keys = <<"results">> /\ Reply.at["results"].t = "list")
                 => ret = Normalized(Return(Reply.at["results"]))

\* C11 witness: an object holding mediciones, data and results, each with a
\* different array, has been normalized to the array under results.
C11_Witness ==
    /\ InGetMeasurementsList
    /\ Answered
    /\ Reply = JObject(<<"mediciones", "data", "results">>,
                       [mediciones |-> JArray(<<Record20, Record255>>),
                        data |-> JArray(<<>>),
                        results |-> JArray(<<Record255>>)])
    /\ ret = Return(JArray(<<Record255>>))

\* C12: for every JSON reply of the upstream, array, object, scalar or null,
\* with any value under results, data or mediciones, get_measurements_list
\* returns a list.
C12_AlwaysReturnsList ==
    (InGetMeasurementsList /\ ret.exc = "") => ret.val.t = "list"

\* the text has the shape YYYY-MM-DD
HasDateShape(cs) ==
    /\ Len(cs) = 10
    /\ cs[5] = "-" /\ cs[8] = "-"
    /\ \A i \in {1, 2, 3, 4, 6, 7, 9, 10} : cs[i] \in {DecimalDigits[k] : k \in 1..10}

\* C13: get_measurements_by_date called with a date that is present but
\* does not match YYYY-MM-DD raises InvalidDateFormatException and sends no
\* request upstream.
C13_BadDateRaisesBeforeRequest ==
    (InGetMeasurementsByDate /\ call.date_str # None /\ ~HasDateShape(call.date_str.s))
        => ret = Raise("InvalidDateFormatException") /\ gets = <<>>

\* the GET of the call failed: no response, or a response that is not 2xx
UpstreamFailed ==
    /\ gets # <<>>
    /\ \/ ~call.env.upstream.responds
       \/ call.env.upstream.status_code \notin 200..299

\* C14: when the GET fails (no response, or a non-2xx status),
\* get_measurements_by_date raises GlobalMetAPIException carrying the status
\* code of the response, null when there is none, and returns no data.
C14_FailedGetRaises ==
    (InGetMeasurementsByDate /\ UpstreamFailed)
        => ret = RaiseStatus("GlobalMetAPIException",
                             IF call.env.upstream.responds
                             THEN PyInt(call.env.upstream.status_code)
                             ELSE None)

(***************************************************************************)
(* The endpoints.                                                          *)
(***************************************************************************)
ClassViews ==
    {"TemperatureStatisticsView", "HumidityStatisticsView", "WindStatisticsView",
     "WindGustStatisticsView", "PressureStatisticsView", "DailySummaryView",
     "ExportStatisticsView", "ExportMeasurementsView"}

FunctionViews ==
    {"temperatura_estadisticas", "humedad_estadisticas", "viento_estadisticas",
     "rafaga_estadisticas", "presion_estadisticas", "resumen_diario",
     "exportar_estadisticas", "exportar_mediciones"}

InView == call.op \in ClassViews \cup FunctionViews

\* the endpoints that read unidad
ReadsUnidad ==
    call.op \in {"TemperatureStatisticsView", "DailySummaryView", "ExportStatisticsView",
                 "temperatura_estadisticas", "resumen_diario", "exportar_estadisticas"}

RawExport == call.op \in {"ExportMeasurementsView", "exportar_mediciones"}

Given(param) == param # None /\ param.s # <<>>

\* a text that names a day of the calendar, year-month-day
NamesDate(param) == strptime(param.s).exc = ""

FutureDia ==
    /\ Given(call.query_params.dia)
    /\ NamesDate(call.query_params.dia)
    /\ After(strptime(call.query_params.dia.s).val, call.env.clock.today)

InvalidDia ==
    /\ Given(call.query_params.dia)
    /\ ~NamesDate(call.query_params.dia) \/ FutureDia

InvalidUnidad ==
    /\ ReadsUnidad
    /\ Given(call.query_params.unidad)
    /\ ~SupportedUnit(call.query_params.unidad.s)

InvalidParams == InvalidDia \/ InvalidUnidad

\* parameters no endpoint has a reason to refuse: each absent or as the
\* documentation writes it
PlainParams ==
    /\ \/ call.query_params.dia = None
       \/ Given(call.query_params.dia) /\ ~InvalidDia
    /\ \/ ~ReadsUnidad
       \/ call.query_params.unidad = None
       \/ call.query_params.unidad.s \in {Celsius, Fahrenheit, Kelvin}

\* the client raises: no response, or a 4xx or 5xx one
ClientFails ==
    \/ ~call.env.upstream.responds
    \/ call.env.upstream.status_code >= 400

\* what the reply yields as the measurements, and the requests for which it
\* is a list of records
Yielded == NormalizeReply(Reply)

YieldsList == ~ClientFails /\ Yielded.t = "list"

Status == ret.val.status

\* the status the outcome of a request determines, when the upstream yields
\* a list of records or fails
StatusOfOutcome ==
    IF InvalidParams THEN 400
    ELSE IF ClientFails THEN 503
    ELSE IF RawExport /\ Yielded.items = <<>> THEN 404
    ELSE 200

\* C15: every endpoint answers with the one status its outcome determines:
\* 400 for an invalid date or unit, 503 when the upstream client fails, 404
\* for no data on the raw export, 500 for another processing error and 200
\* on success; for a request whose upstream fails or yields a list of
\* records, none of which is a processing error, that is 400, 503, 404 on
\* the raw export of an empty list, and 200 otherwise.
C15_StatusByOutcome ==
    (InView /\ (InvalidParams \/ (PlainParams /\ (ClientFails \/ YieldsList))))
        => Status = StatusOfOutcome

\* C16: in every handler a request whose dia or unidad is invalid is
\* answered 400 and sends no request upstream.
C16_ValidationBeforeUpstream ==
    (InView /\ InvalidParams) => (Status = 400 /\ gets = <<>>)

\* C17: a request whose dia is a calendar date later than the server's
\* current date is answered 400 on every endpoint, whatever its unidad.
C17_FutureDateRejected ==
    (InView /\ FutureDia) => Status = 400

\* the fields an endpoint computes statistics of
FieldsOfView ==
    IF call.op \in {"TemperatureStatisticsView", "temperatura_estadisticas"}
    THEN {WEATHER_FIELDS.temperatura}
    ELSE IF call.op \in {"HumidityStatisticsView", "humedad_estadisticas"}
    THEN {WEATHER_FIELDS.humedad}
    ELSE IF call.op \in {"WindStatisticsView", "viento_estadisticas"}
    THEN {WEATHER_FIELDS.viento}
    ELSE IF call.op \in {"WindGustStatisticsView", "rafaga_estadisticas"}
    THEN {WEATHER_FIELDS.rafaga}
    ELSE IF call.op \in {"PressureStatisticsView", "presion_estadisticas"}
    THEN {WEATHER_FIELDS.presion}
    ELSE {WEATHER_FIELDS[k] : k \in DOMAIN WEATHER_FIELDS}

\* the upstream yields a list with no usable value for the endpoint: the
\* empty list, or records none of which has a number for its fields
NoUsableMeasurements ==
    /\ YieldsList
    /\ \A field \in FieldsOfView :
          ValidIndices(Records(Yielded.items), field) = {}

AllNull(stats) == stats = [min |-> None, max |-> None, promedio |-> None]

NoText == PyStr(<<>>)

\* the answer carries statistics that are all null: the one object, each of
\* the five of the summary, or empty cells in each row of the file
AllNullAnswer ==
    IF call.op \in {"DailySummaryView", "resumen_diario"}
    THEN \A k \in DOMAIN ret.val.data : AllNull(ret.val.data[k])
    ELSE IF call.op \in {"ExportStatisticsView", "exportar_estadisticas"}
    THEN \A i \in DOMAIN ret.val.rows :
            /\ ret.val.rows[i].min = NoText
            /\ ret.val.rows[i].max = NoText
            /\ ret.val.rows[i].promedio = NoText
    ELSE AllNull(ret.val.data)

\* C18: missing data is answered 404 on the raw export only; on the
\* temperature, humidity, wind, gust, pressure, summary and statistics-export
\* endpoints a request for which the upstream yields no usable measurements,
\* the empty list included, is answered 200 with all-null statistics.
C18_NoDataIsNullStatistics ==
    InView =>
        /\ Status = 404 => RawExport
        /\ (~RawExport /\ PlainParams /\ NoUsableMeasurements)
              => (Status = 200 /\ AllNullAnswer)

\* the date a request to the raw export asks for, as the error text names
\* it: the dia given, as year-month-day, or today
RequestedDate ==
    IF call.query_params.dia = None THEN <<"t", "o", "d", "a", "y">>
    ELSE strftime(strptime(call.query_params.dia.s).val)

EmptyExport ==
    /\ call.op = "ExportMeasurementsView"
    /\ PlainParams
    /\ YieldsList
    /\ Yielded.items = <<>>

RecordsExport == RawExport /\ PlainParams /\ YieldsList /\ Yielded.items # <<>>

\* a value as the file shows it: null as the empty text
Written(v) == IF v = None THEN NoText ELSE v

\* C20: for a list that has records the raw export writes a header equal to
\* the field names of the first record in their order, then one row for each
\* record in the order of the list; a row has one cell for each header
\* field, holding the record's value for the field (null written as the
\* empty text) or the empty text when the record lacks the field.
C20_RawExportRows ==
    RecordsExport =>
        /\ Status = 200
        /\ ret.val.header = Yielded.items[1].keys
        /\ Len(ret.val.rows) = Len(Yielded.items)
        /\ \A i \in DOMAIN ret.val.rows :
              /\ Len(ret.val.rows[i]) = Len(ret.val.header)
              /\ \A j \in DOMAIN ret.val.header :
                    ret.val.rows[i][j] =
                       IF HasKey(Yielded.items[i], ret.val.header[j])
                       THEN Written(Yielded.items[i].at[ret.val.header[j]])
                       ELSE NoText

\* an export of several records, one of which lacks a field of the header
C20_Witness ==
    /\ RecordsExport
    /\ Status = 200
    /\ Len(ret.val.rows) >= 2
    /\ \E i \in DOMAIN ret.val.rows, j \in DOMAIN ret.val.header :
          /\ ~HasKey(Yielded.items[i], ret.val.header[j])
          /\ ret.val.rows[i][j] = NoText

\* a daily summary that was answered
SummaryAnswered ==
    /\ call.op \in {"DailySummaryView", "resumen_diario"}
    /\ PlainParams
    /\ Status = 200

\* unidad is celsius, or left out
InCelsius ==
    \/ call.query_params.unidad = None
    \/ call.query_params.unidad.s = Celsius

\* the statistics of a field over the records the upstream yielded
StatisticsOfField(stats, field) ==
    ValidStatistics(stats, ValidValues(Records(Yielded.items), field))

\* C21: the daily-summary response holds exactly the entries temperatura,
\* humedad, viento, rafaga and presion, each the statistics of its own field
\* over the records fetched; humedad, viento, rafaga and presion are those
\* statistics whatever unidad is, and temperatura is when unidad is celsius
\* or left out (an object of min, max and promedio in every unit).
C21_SummaryOfFiveFields ==
    SummaryAnswered =>
        /\ DOMAIN ret.val.data = {"temperatura", "humedad", "viento", "rafaga", "presion"}
        /\ \A k \in {"humedad", "viento", "rafaga", "presion"} :
              StatisticsOfField(ret.val.data[k], WEATHER_FIELDS[k])
        /\ DOMAIN ret.val.data.temperatura = {"min", "max", "promedio"}
        /\ InCelsius
              => StatisticsOfField(ret.val.data.temperatura, WEATHER_FIELDS.temperatura)

\* a summary in fahrenheit of records that carry all five fields
C21_Witness ==
    /\ SummaryAnswered
    /\ call.op = "DailySummaryView"
    /\ call.query_params.unidad = PyStr(Fahrenheit)
    /\ Len(Yielded.items) = 2
    /\ ret.val.data.humedad.min = PyFloat(Dec(555, 10))
    /\ ret.val.data.humedad.max = PyFloat(FromInt(60))
    /\ ret.val.data.presion.min = PyFloat(Dec(10132, 10))
    /\ ret.val.data.temperatura.min = PyFloat(FromInt(23))

\* a request to the temperature endpoint that was answered
TemperatureAnswered ==
    /\ call.op \in {"TemperatureStatisticsView", "temperatura_estadisticas"}
    /\ PlainParams
    /\ Status = 200

\* the Celsius statistics of the records fetched
CelsiusStatistics ==
    calculate_statistics(Records(Yielded.items), WEATHER_FIELDS.temperatura).val

\* a Celsius statistic in the unit asked for
InUnitAsked(v) ==
    IF call.query_params.unidad.s = Fahrenheit THEN PyFloat(InFahrenheit(v.f))
    ELSE PyFloat(InKelvin(v.f))

\* C22: on the temperature endpoint, with unidad other than celsius each
\* non-null min, max and average of the response is the conversion to that
\* unit of the corresponding Celsius statistic; with unidad celsius or left
\* out the response is the Celsius statistics.
C22_TemperatureInUnitAsked ==
    (TemperatureAnswered /\ Yielded.items # <<>>) =>
        IF InCelsius THEN ret.val.data = CelsiusStatistics
        ELSE \A k \in {"min", "max", "promedio"} :
                ret.val.data[k] # None
                    => ret.val.data[k] = InUnitAsked(CelsiusStatistics[k])

InStatisticsExport == call.op \in {"ExportStatisticsView", "exportar_estadisticas"}

\* the response of the daily summary to the same request
SummaryResponse ==
    IF call.op = "ExportStatisticsView"
    THEN handle_exception(DailySummaryView_get(call.query_params, call.env))
    ELSE resumen_diario(call.query_params, call.env)

ParameterOrder == <<"temperatura", "humedad", "viento", "rafaga", "presion">>

ParameterNames ==
    <<"Temperatura", "Humedad Relativa", "Viento", "Rafaga de Viento", "Presion">>

\* the unit label of each parameter, that of temperatura by unidad
UnitLabels ==
    <<IF InCelsius THEN "°C"
      ELSE IF call.query_params.unidad.s = Fahrenheit THEN "°F" ELSE "K",
      "%", "km/h", "km/h", "mb">>

\* the date a file name carries between its base name and its extension
FilenameDate == SubSeq(ret.val.filename, 3, Len(ret.val.filename) - 1)

\* C23: the statistics export computes what the daily summary computes: it
\* is answered when the summary is, and for the same records and unidad it
\* writes the header row, then one row for each parameter in the order
\* temperatura, humedad, viento, rafaga, presion, whose min, max and average
\* cells are the values of the summary for that parameter (null as the empty
\* text) and whose last cell is the unit label of the parameter; the file
\* name carries the date asked for, or hoy when dia is left out.
C23_StatisticsExportIsSummary ==
    (InStatisticsExport /\ PlainParams) =>
        /\ Status = SummaryResponse.status
        /\ Status = 200 =>
              /\ ret.val.header = <<"Parametro", "Minimo", "Maximo", "Promedio", "Unidad">>
              /\ DOMAIN ret.val.rows = 1..5
              /\ \A i \in 1..5 :
                    /\ ret.val.rows[i].parametro = ParameterNames[i]
                    /\ ret.val.rows[i].min
                          = Written(SummaryResponse.data[ParameterOrder[i]].min)
                    /\ ret.val.rows[i].max
                          = Written(SummaryResponse.data[ParameterOrder[i]].max)
                    /\ ret.val.rows[i].promedio
                          = Written(SummaryResponse.data[ParameterOrder[i]].promedio)
                    /\ ret.val.rows[i].unidad = UnitLabels[i]
              /\ ret.val.filename[1] = "estadisticas"
              /\ ret.val.filename[2] = "_"
              /\ ret.val.filename[Len(ret.val.filename)] = ".csv"
              /\ IF call.query_params.dia = None THEN FilenameDate = <<"hoy">>
                 ELSE strptime(FilenameDate) = strptime(call.query_params.dia.s)

\* an export in fahrenheit of a day's records, asked for by its date
C23_Witness ==
    /\ call.op = "ExportStatisticsView"
    /\ PlainParams
    /\ Status = 200
    /\ call.query_params.unidad = PyStr(Fahrenheit)
    /\ call.query_params.dia # None
    /\ FilenameDate = call.query_params.dia.s
    /\ ret.val.rows[1].min = PyFloat(FromInt(23))
    /\ ret.val.rows[1].unidad = "°F"
    /\ ret.val.rows[5].min = PyFloat(Dec(10132, 10))
    /\ ret.val.rows[5].max = ret.val.rows[5].min

\* C24: every request sends at most one GET upstream, the daily summary and
\* the statistics export included; when that GET fails (no response, or a
\* status that is not 2xx) the request is answered 503.
C24_SingleAttempt ==
    InView =>
        /\ Len(gets) <= 1
        /\ UpstreamFailed => Status = 503

\* the response the view gives the request when it is the only one handled
HandledAlone(request) ==
    handle_exception(
        CASE request.view = "TemperatureStatisticsView" ->
                 TemperatureStatisticsView_get(request.query_params, request.env)
          [] request.view = "ExportMeasurementsView" ->
                 ExportMeasurementsView_get(request.query_params, request.env))

\* the request has been answered
Handled(r) == handling[r].pc = "done"

\* the get handling the request holds the measurements its client returned
HoldsMeasurements(r) == handling[r].pc = "calculate_statistics"

\* the two requests differ in the view and in the upstream reply
DifferentRequests(r, s) ==
    /\ handling[r].view # handling[s].view
    /\ handling[r].env # handling[s].env

\* C25: whatever the interleaving of the requests being handled, the
\* response of each request is the response the view gives it when it is
\* handled alone with the same parameters and the same upstream reply.
C25_ConcurrentRequestsIndependent ==
    \A r \in Requests : Handled(r) => handling[r].response = HandledAlone(handling[r])

\* a request is answered 200 while the get of a different request, entered
\* before, still holds its own measurements
C25_Witness ==
    /\ Handled(2)
    /\ handling[2].response.status = 200
    /\ HoldsMeasurements(1)
    /\ DifferentRequests(1, 2)

\* the text carries the text of the exception that was caught
CarriesExceptionText(text) == \E i \in DOMAIN text : text[i] = "str(e)"

\* C26: a request that fails for another reason than its parameters, the
\* upstream or missing data is answered 500 with a generic message: the
\* body of a 500 response never carries the text of the exception.
C26_GenericServerError ==
    (InView /\ Status = 500) => ~CarriesExceptionText(ret.val.data.error)

\* the statistics computed from records of temperatura_c have been converted
InTemperaturePipeline ==
    /\ call.op = "convert_temperature_stats"
    /\ call.measurements # <<>>
    /\ call.field = "temperatura_c"

\* what the processor of services.py makes of the same records and unit
legacy_Pipeline ==
    legacy_convert_temperature_stats(
        legacy_calculate_statistics(call.measurements, call.field).val, call.unit)

\* C27: on the temperature pipeline, calculate_statistics followed by
\* convert_temperature_stats, the processor of services.py and the processor
\* of core/services.py return the same result for every non-empty list of
\* records and every valid unit, statistics equal to 0 included.
C27_ProcessorsEquivalent == InTemperaturePipeline => ret = legacy_Pipeline

\* a class-based view was asked for a day and its serializer accepted it
DiaAccepted ==
    /\ call.op \in ClassViews
    /\ Given(call.query_params.dia)
    /\ Status # 400

\* the date get_current_date_hermosillo returns at the instant of the request
TodayInHermosillo == strptime(get_current_date_hermosillo(call.env.clock).s).val

\* C28: the check of dia and the default date agree on today: a dia that
\* validate_dia accepts is never later than the date
\* get_current_date_hermosillo returns at that instant, whatever the
\* server's own timezone is.
C28_AcceptedDiaNotAfterHermosillo ==
    DiaAccepted => ~After(strptime(call.query_params.dia.s).val, TodayInHermosillo)

\* a statistics object has been returned: by calculate_statistics, or by
\* convert_temperature_stats for the statistics just computed
StatisticsReturned ==
    /\ InCalculateStatistics \/ InTemperaturePipeline
    /\ ret.exc = ""

NoneNull(stats) == stats.min # None /\ stats.max # None /\ stats.promedio # None

Ordered(stats) ==
    /\ FLe(stats.min.f, stats.promedio.f)
    /\ FLe(stats.promedio.f, stats.max.f)

\* C29: the statistics calculate_statistics returns, and those
\* convert_temperature_stats returns for them in fahrenheit or kelvin, have
\* min, max and average all null or all non-null; the converted ones, when
\* non-null, satisfy min <= average <= max.
C29_StatisticsWellFormed ==
    StatisticsReturned =>
        \/ AllNull(ret.val)
        \/ /\ NoneNull(ret.val)
           /\ InTemperaturePipeline => Ordered(ret.val)

SummaryFields == {"temperatura", "humedad", "viento", "rafaga", "presion"}

\* the entries of the summary that hold the statistics as computed
ComputedEntries == IF InCelsius THEN SummaryFields ELSE SummaryFields \ {"temperatura"}

\* the statistics of field k computed once those of field j have been
ComputedAfter(j, k) ==
    calculate_statistics(RecordsLeftBy(Records(Yielded.items), WEATHER_FIELDS[j]),
                         WEATHER_FIELDS[k]).val

====
